---- MODULE Spec2Model ----
(***************************************************************************)
(* Model of the SQL linter of sqls (internal/linter, internal/diagnostic,  *)
(* internal/handler/diagnostics.go).                                        *)
(*                                                                          *)
(* A document is a small positioned syntax tree; the catalog is a DBCache   *)
(* value; the configuration is a lintconfig.Config value.  Lint is the      *)
(* coordinator of internal/linter/linter.go and runs the validators of      *)
(* internal/linter/validator in the order of the code.                      *)
(*                                                                          *)
(* Names are sequences of one-character strings so that case folding,       *)
(* quoting and prefix tests are computed, not assumed.                      *)
(***************************************************************************)
EXTENDS Integers, Sequences, FiniteSets, TLC

VARIABLES text, config, dbCache, driver, linter, db, results, published, requests

vars == <<text, config, dbCache, driver, linter, db, results, published, requests>>

----------------------------------------------------------------------------
(* Bounds of the model *)

\* statements in a multi-statement document
MaxStmts == 2
\* largest value of maxDiagnostics tried
MaxLimit == 2
\* Lint passes over one (text, config, catalog)
MaxRuns == 2
\* lint requests the server takes for its document
MaxRequests == 2

----------------------------------------------------------------------------
(* Strings *)

UpperLetters ==
  <<"A","B","C","D","E","F","G","H","I","J","K","L","M",
    "N","O","P","Q","R","S","T","U","V","W","X","Y","Z">>

LowerLetters ==
  <<"a","b","c","d","e","f","g","h","i","j","k","l","m",
    "n","o","p","q","r","s","t","u","v","w","x","y","z">>

LowerTable ==
  [c \in {UpperLetters[i] : i \in 1..26} |->
     LowerLetters[CHOOSE i \in 1..26 : UpperLetters[i] = c]]

UpperTable ==
  [c \in {LowerLetters[i] : i \in 1..26} |->
     UpperLetters[CHOOSE i \in 1..26 : LowerLetters[i] = c]]

LowerChar(c) == IF c \in DOMAIN LowerTable THEN LowerTable[c] ELSE c

UpperChar(c) == IF c \in DOMAIN UpperTable THEN UpperTable[c] ELSE c

\* strings.ToLower / strings.ToUpper / strings.EqualFold / strings.HasPrefix
ToLower(s) == <<>> \o [i \in 1..Len(s) |-> LowerChar(s[i])]

ToUpper(s) == <<>> \o [i \in 1..Len(s) |-> UpperChar(s[i])]

EqualFold(s, t) == ToLower(s) = ToLower(t)

HasPrefix(s, p) == Len(p) <= Len(s) /\ SubSeq(s, 1, Len(p)) = p

RECURSIVE Join(_, _)
\* strings.Join
Join(parts, sep) ==
  IF parts = <<>> THEN <<>>
  ELSE IF Len(parts) = 1 THEN parts[1]
  ELSE parts[1] \o sep \o Join(Tail(parts), sep)

CommaSpace == <<",", " ">>

\* the names used in the documents and catalogs of the model
sId == <<"i","d">>
sName == <<"n","a","m","e">>
sTotal == <<"t","o","t","a","l">>
sZzz == <<"z","z","z">>
sUsers == <<"u","s","e","r","s">>
sOrders == <<"o","r","d","e","r","s">>
sGhost == <<"g","h","o","s","t">>
sPublic == <<"p","u","b","l","i","c">>
sU == <<"u">>
sO == <<"o">>
sStar == <<"*">>
kSELECT == <<"S","E","L","E","C","T">>
kFROM == <<"F","R","O","M">>
kWHERE == <<"W","H","E","R","E">>
kJOIN == <<"J","O","I","N">>
kON == <<"O","N">>
kAS == <<"A","S">>
kNULL == <<"N","U","L","L">>

----------------------------------------------------------------------------
(* Tokens and syntax-tree nodes (package token, package ast) *)

\* token.Pos: 1-based line and column
Pos(line, col) == [Line |-> line, Col |-> col]

NoPos == Pos(0, 0)

\* ast.SQLToken: Kind, the raw text, and the span From..To
Tok(kind, raw) == [Kind |-> kind, raw |-> raw, From |-> NoPos, To |-> NoPos]

NoTok == Tok("None", <<>>)

\* a node that is a single token (ast.Item, ast.Identifier)
Leaf(type, kind, raw) ==
  [type |-> type, tok |-> Tok(kind, raw), toks |-> <<>>, a |-> 0, b |-> 0]

\* a node that is a token list; a and b index its distinguished children
\* (MemberIdentifier: parent and child; Aliased: real name and alias name)
Group(type, toks, a, b) ==
  [type |-> type, tok |-> NoTok, toks |-> toks, a |-> a, b |-> b]

NoNode == Leaf("nil", "None", <<>>)

Kw(word, lower) == Leaf("Item", "SQLKeyword", IF lower THEN ToLower(word) ELSE word)

WS == Leaf("Item", "Whitespace", <<" ">>)

CommaItem == Leaf("Item", "Comma", <<",">>)

PeriodItem == Leaf("Item", "Period", <<".">>)

SemiItem == Leaf("Item", "Semicolon", <<";">>)

\* the kind the tokenizer gives an identifier-like lexeme
LexKind(raw) ==
  IF raw = sStar THEN "Mult"
  ELSE IF raw # <<>> /\ raw[1] = "'" THEN "SingleQuotedString"
  ELSE "SQLKeyword"

Identifier(raw) == Leaf("Identifier", LexKind(raw), raw)

MemberIdentifier(parent, child) ==
  Group("MemberIdentifier", <<Identifier(parent), PeriodItem, Identifier(child)>>, 1, 3)

ParentIdent(m) == m.toks[m.a]

ChildIdent(m) == m.toks[m.b]

RealName(al) == al.toks[al.a]

AliasedName(al) == al.toks[al.b]

\* Identifier.IsWildcard
IsWildcard(id) == id.tok.Kind = "Mult"

\* SQLToken.String: the raw lexeme
TokString(t) == t.raw

\* SQLToken.NoQuoteString: the lexeme without its surrounding quotes
NoQuote(raw) ==
  IF Len(raw) >= 2 /\ raw[1] \in {"'", "\""} /\ raw[Len(raw)] = raw[1]
    THEN SubSeq(raw, 2, Len(raw) - 1)
    ELSE raw

RECURSIVE NodeString(_)
RECURSIVE SeqString(_)
\* Node.String: the concatenated text of the node
NodeString(n) == IF n.toks = <<>> THEN n.tok.raw ELSE SeqString(n.toks)

SeqString(ns) == IF ns = <<>> THEN <<>> ELSE NodeString(Head(ns)) \o SeqString(Tail(ns))

NoQuoteString(id) == NoQuote(id.tok.raw)

----------------------------------------------------------------------------
(* The parser (package parser): from a document to a positioned tree.      *)
(* A document is a list of statements, one per line; text.ok = FALSE is a  *)
(* text the parser rejects.                                                 *)

\* a column-like expression: [p.]c, optionally followed by AS alias
Expr(p, c) == [p |-> p, c |-> c, alias |-> <<>>]

ExprAs(p, c, alias) == [p |-> p, c |-> c, alias |-> alias]

\* a comparison l op r (op is "Eq" or "Neq"; r.c = NULL is the keyword)
Cmp(l, op, r) == [l |-> l, op |-> op, r |-> r]

\* a table reference [schema.]name [[AS] alias]
Table(schema, name, alias, as) ==
  [schema |-> schema, name |-> name, alias |-> alias, as |-> as]

\* SELECT sel FROM from {JOIN t ON on} [WHERE where] [;]
Stmt(sel, from, joins, where, semi, lower) ==
  [sel |-> sel, from |-> from, joins |-> joins, where |-> where,
   semi |-> semi, lower |-> lower]

----------------------------------------------------------------------------
(* The documents of the model *)

sNameCap == <<"N","a","m","e">>
sDQId == <<"\"","i","d","\"">>

eId == Expr(<<>>, sId)
eName == Expr(<<>>, sName)
eTotal == Expr(<<>>, sTotal)
eZzz == Expr(<<>>, sZzz)
eStar == Expr(<<>>, sStar)
eNull == Expr(<<>>, kNULL)
eUId == Expr(sU, sId)
eOId == Expr(sO, sId)
eUName == Expr(sU, sName)
eUZzz == Expr(sU, sZzz)
eUsersZzz == Expr(sUsers, sZzz)
eUsersId == Expr(sUsers, sId)
eOrdersId == Expr(sOrders, sId)

tUsers == Table(<<>>, sUsers, <<>>, FALSE)
tOrders == Table(<<>>, sOrders, <<>>, FALSE)
tGhost == Table(<<>>, sGhost, <<>>, FALSE)
tUsersU == Table(<<>>, sUsers, sU, FALSE)
tOrdersO == Table(<<>>, sOrders, sO, TRUE)

\* names and table references with a schema, in another letter case, short
\* enough to be a keyword being typed, or quoted
sNope == <<"n","o","p","e">>
sLe == <<"l","e">>
sBetwe == <<"b","e","t","w","e">>
sG == <<"g">>
sUCap == <<"U">>
sPublicCap == <<"P","U","B","L","I","C">>
sUsersCap == <<"U","S","E","R","S">>
sDQZzz == <<"\"","z","z","z","\"">>
sSQZzz == <<"'","z","z","z","'">>

eGId == Expr(sG, sId)
eDQZzz == Expr(<<>>, sDQZzz)
eUsers == Expr(<<>>, sUsers)
eUStar == Expr(sU, sStar)
eGStar == Expr(sG, sStar)
eSQZzz == Expr(<<>>, sSQZzz)

tPublicUsers == Table(sPublic, sUsers, <<>>, FALSE)
tPublicUsersCap == Table(sPublicCap, sUsersCap, <<>>, FALSE)
tUsersCap == Table(<<>>, sUsersCap, <<>>, FALSE)
tNopeUsers == Table(sNope, sUsers, <<>>, FALSE)
tNopeOrdersO == Table(sNope, sOrders, sO, TRUE)
tLe == Table(<<>>, sLe, <<>>, FALSE)
tNopeLe == Table(sNope, sLe, <<>>, FALSE)
tBetwe == Table(<<>>, sBetwe, <<>>, FALSE)
tZzz == Table(<<>>, sZzz, <<>>, FALSE)
tGhostG == Table(<<>>, sGhost, sG, TRUE)
tUsersUCap == Table(<<>>, sUsers, sUCap, FALSE)
tUsersO == Table(<<>>, sUsers, sO, TRUE)

SelPool ==
  { <<eId>>, <<eName>>, <<eStar>>, <<eZzz>>, <<eUZzz>>, <<eUName>>, <<eUsersZzz>>,
    <<eName, eId>> }

FromPool ==
  { <<tUsers>>, <<tUsersU>>, <<tGhost>>, <<tUsers, tOrders>>, <<tUsersU, tOrdersO>>,
    <<tUsers, tGhost, tOrders>> }

JoinPool ==
  { <<>>, <<[t |-> tOrdersO, on |-> Cmp(eUId, "Eq", eOId)]>>,
    <<[t |-> tOrders, on |-> Cmp(eId, "Eq", eTotal)]>> }

WherePool ==
  { <<>>, <<Cmp(eId, "Eq", eNull)>>, <<Cmp(eUsersId, "Neq", eOrdersId)>> }

\* single statements varying the select list and the table list
ColumnStmts ==
  { Stmt(sel, from, <<>>, <<>>, TRUE, FALSE) : sel \in SelPool, from \in FromPool }

\* single statements varying the clauses
ClauseStmts ==
  { Stmt(sel, from, joins, where, style[1], style[2]) :
      sel \in {<<eId>>, <<eStar>>}, from \in {<<tUsersU>>, <<tUsers, tOrders>>},
      joins \in JoinPool, where \in WherePool,
      style \in {<<TRUE, FALSE>>, <<FALSE, TRUE>>} }

\* the statements of multi-statement documents (all but the last end in ;)
MultiStmts ==
  { Stmt(<<eId>>, <<tUsers>>, <<>>, <<>>, TRUE, FALSE),
    Stmt(<<eId>>, <<tUsers, tOrders>>, <<>>, <<>>, TRUE, FALSE),
    Stmt(<<eStar>>, <<tUsersU, tOrdersO>>, <<>>, <<Cmp(eUId, "Eq", eOId)>>, TRUE, FALSE),
    Stmt(<<eTotal>>, <<tOrders>>, <<>>, <<>>, TRUE, FALSE) }

\* single statements probing schemas, letter case, short names, quoting,
\* aliases and self-joins
ReferenceStmts ==
  { Stmt(<<eId>>, <<tPublicUsers>>, <<>>, <<>>, TRUE, FALSE),
    Stmt(<<eId>>, <<tPublicUsersCap>>, <<>>, <<>>, TRUE, FALSE),
    Stmt(<<eId>>, <<tUsersCap>>, <<>>, <<>>, TRUE, FALSE),
    Stmt(<<eId>>, <<tNopeUsers>>, <<>>, <<>>, TRUE, FALSE),
    Stmt(<<eStar>>, <<tUsersU>>, <<[t |-> tNopeOrdersO, on |-> Cmp(eUId, "Eq", eOId)]>>,
         <<>>, TRUE, FALSE),
    Stmt(<<eId>>, <<tUsers, tLe, tNopeLe, tBetwe, tZzz>>, <<>>, <<>>, TRUE, FALSE),
    Stmt(<<eId>>, <<tGhostG>>, <<>>, <<>>, TRUE, FALSE),
    Stmt(<<eStar>>, <<tUsersU>>, <<[t |-> tGhostG, on |-> Cmp(eUId, "Eq", eGId)]>>,
         <<>>, TRUE, FALSE),
    Stmt(<<eUId>>, <<tUsersUCap>>, <<>>, <<>>, TRUE, FALSE),
    Stmt(<<eUId>>, <<tUsersU>>, <<[t |-> tUsersO, on |-> Cmp(eUId, "Eq", eOId)]>>,
         <<>>, TRUE, FALSE),
    Stmt(<<eDQZzz>>, <<tUsers>>, <<>>, <<Cmp(eDQZzz, "Eq", eSQZzz)>>, TRUE, FALSE),
    Stmt(<<eSQZzz>>, <<tUsers>>, <<>>, <<>>, TRUE, FALSE),
    Stmt(<<eId>>, <<tUsers, tPublicUsers>>, <<>>, <<>>, TRUE, FALSE),
    Stmt(<<eUsers>>, <<tUsers>>, <<>>, <<Cmp(eUsers, "Eq", eId)>>, TRUE, FALSE),
    Stmt(<<eId>>, <<tUsers>>, <<[t |-> tOrders, on |-> Cmp(eUsers, "Eq", eTotal)]>>,
         <<>>, TRUE, FALSE),
    Stmt(<<eUStar, eGStar>>, <<tUsersU>>, <<>>, <<>>, TRUE, FALSE) }

\* documents that define the same alias in two statements
AliasDocs ==
  { << Stmt(<<eId>>, <<tUsersU>>, <<>>, <<>>, TRUE, FALSE),
       Stmt(<<eId>>, <<tUsersU>>, <<>>, <<>>, TRUE, FALSE) >> }

Texts ==
  { [ok |-> TRUE, stmts |-> <<st>>] : st \in ColumnStmts \cup ClauseStmts \cup ReferenceStmts }
  \cup { [ok |-> TRUE, stmts |-> sts] : sts \in AliasDocs }
  \cup { [ok |-> TRUE, stmts |-> sts] :
           sts \in UNION {[1..n -> MultiStmts] : n \in 2..MaxStmts} }
  \cup { [ok |-> FALSE, stmts |-> <<>>] }

----------------------------------------------------------------------------
(* Building the positioned tree *)

RECURSIVE Interleave(_)
\* n1 , n2 , n3 as the children of an IdentifierList
Interleave(nodes) ==
  IF Len(nodes) <= 1 THEN nodes
  ELSE <<Head(nodes), CommaItem, WS>> \o Interleave(Tail(nodes))

ListNode(nodes) ==
  IF Len(nodes) = 1 THEN nodes[1] ELSE Group("IdentifierList", Interleave(nodes), 0, 0)

AliasedNode(real, alias, as, lower) ==
  IF as
    THEN Group("Aliased", <<real, WS, Kw(kAS, lower), WS, Identifier(alias)>>, 1, 5)
    ELSE Group("Aliased", <<real, WS, Identifier(alias)>>, 1, 3)

ExprNode(e, lower) ==
  LET base == IF e.p = <<>> THEN Identifier(e.c) ELSE MemberIdentifier(e.p, e.c)
  IN  IF e.alias = <<>> THEN base ELSE AliasedNode(base, e.alias, TRUE, lower)

TableNode(t, lower) ==
  LET base == IF t.schema = <<>> THEN Identifier(t.name)
              ELSE MemberIdentifier(t.schema, t.name)
  IN  IF t.alias = <<>> THEN base ELSE AliasedNode(base, t.alias, t.as, lower)

OperandNode(e, lower) ==
  IF e.p = <<>> /\ ToUpper(e.c) = kNULL
    THEN Leaf("Null", "SQLKeyword", e.c)
    ELSE ExprNode(e, lower)

CmpNode(c, lower) ==
  Group("Comparison",
        <<OperandNode(c.l, lower), WS,
          Leaf("Item", c.op, IF c.op = "Eq" THEN <<"=">> ELSE <<"!", "=">>), WS,
          OperandNode(c.r, lower)>>, 1, 5)

JoinNodes(joins, lower) ==
  [i \in 1..Len(joins) |->
     Group("Join", <<WS, Kw(kJOIN, lower), WS, TableNode(joins[i].t, lower), WS,
                     Kw(kON, lower), WS, CmpNode(joins[i].on, lower)>>, 4, 8)]

WhereNodes(where, lower) ==
  [i \in 1..Len(where) |->
     Group("Where", <<WS, Kw(kWHERE, lower), WS, CmpNode(where[i], lower)>>, 4, 0)]

StatementNode(st) ==
  Group("Statement",
        <<Kw(kSELECT, st.lower), WS,
          ListNode([i \in 1..Len(st.sel) |-> ExprNode(st.sel[i], st.lower)]), WS,
          Group("FromClause",
                <<Kw(kFROM, st.lower), WS,
                  ListNode([i \in 1..Len(st.from) |-> TableNode(st.from[i], st.lower)])>>,
                3, 0)>>
        \o JoinNodes(st.joins, st.lower)
        \o WhereNodes(st.where, st.lower)
        \o (IF st.semi THEN <<SemiItem>> ELSE <<>>),
        3, 5)

RECURSIVE Width(_)
RECURSIVE SeqWidth(_)
\* number of characters a node spans
Width(n) == IF n.toks = <<>> THEN Len(n.tok.raw) ELSE SeqWidth(n.toks)

SeqWidth(ns) == IF ns = <<>> THEN 0 ELSE Width(Head(ns)) + SeqWidth(Tail(ns))

RECURSIVE Place(_, _, _)
RECURSIVE PlaceSeq(_, _, _)
\* the node with every token given its span, the node starting at (line, col)
Place(n, line, col) ==
  IF n.toks = <<>>
    THEN [n EXCEPT !.tok.From = Pos(line, col),
                   !.tok.To = Pos(line, col + Len(n.tok.raw))]
    ELSE [n EXCEPT !.toks = PlaceSeq(n.toks, line, col)]

PlaceSeq(ns, line, col) ==
  IF ns = <<>> THEN <<>>
  ELSE <<Place(Head(ns), line, col)>> \o PlaceSeq(Tail(ns), line, col + Width(Head(ns)))

\* the tree the parser builds for a document, or its error
ParseText(t) ==
  IF ~t.ok THEN [err |-> TRUE, root |-> NoNode]
  ELSE [err |-> FALSE,
        root |-> Group("Query",
                       [i \in 1..Len(t.stmts) |-> Place(StatementNode(t.stmts[i]), i, 1)],
                       0, 0)]

\* the parse of every document of the model, computed once
ParseTable == [t \in Texts |-> ParseText(t)]

\* parser.Parse: an error, or the Query node holding the statements
Parse(t) == ParseTable[t]

RECURSIVE NodePos(_)
\* Node.Pos: where the first token of the node starts
NodePos(n) == IF n.toks = <<>> THEN n.tok.From ELSE NodePos(n.toks[1])

RECURSIVE NodeEnd(_)
\* Node.End: where the last token of the node ends
NodeEnd(n) == IF n.toks = <<>> THEN n.tok.To ELSE NodeEnd(n.toks[Len(n.toks)])

\* IdentifierList.GetIdentifiers: the children that are not separators
GetIdentifiers(list) == SelectSeq(list.toks, LAMBDA c : c.type # "Item")

RECURSIVE walk(_)
RECURSIVE walkSeq(_)
\* walk: the nodes of a tree in depth-first pre-order
walk(n) == <<n>> \o walkSeq(n.toks)

walkSeq(ns) == IF ns = <<>> THEN <<>> ELSE walk(Head(ns)) \o walkSeq(Tail(ns))

\* flattenTokens: the low-level tokens of a node, in order
flattenTokens(n) ==
  LET leaves == SelectSeq(walk(n), LAMBDA c : c.toks = <<>>)
  IN  <<>> \o [i \in 1..Len(leaves) |-> leaves[i].tok]

RECURSIVE Flatten(_)
\* the concatenation of a sequence of sequences
Flatten(ss) == IF ss = <<>> THEN <<>> ELSE Head(ss) \o Flatten(Tail(ss))

\* the concatenation of f(x) over the elements x of a sequence
FlatMap(f(_), xs) == Flatten(<<>> \o [i \in 1..Len(xs) |-> f(xs[i])])

OfType(ns, type) == SelectSeq(ns, LAMBDA c : c.type = type)

\* the statements of a parsed document
Statements(parsed) == OfType(parsed.toks, "Statement")

\* parseutil.ExtractSelectExpr: the expression(s) after SELECT
ExtractSelectExpr(parsed) ==
  LET sts == Statements(parsed)
  IN  <<>> \o [i \in 1..Len(sts) |-> sts[i].toks[3]]

\* parseutil.ExtractWhereCondition: the condition of every WHERE clause
ExtractWhereCondition(parsed) ==
  LET ws == OfType(walk(parsed), "Where")
  IN  <<>> \o [i \in 1..Len(ws) |-> ws[i].toks[4]]

FromTargets(parsed) ==
  LET fs == OfType(walk(parsed), "FromClause")
  IN  <<>> \o [i \in 1..Len(fs) |-> fs[i].toks[3]]

\* parseutil.ExtractTableReferences: multi-table FROM targets
ExtractTableReferences(parsed) == OfType(FromTargets(parsed), "IdentifierList")

\* parseutil.ExtractTableReference: single-table FROM targets
ExtractTableReference(parsed) ==
  SelectSeq(FromTargets(parsed), LAMBDA c : c.type # "IdentifierList")

\* parseutil.ExtractTableFactor: the table factor of every JOIN
ExtractTableFactor(parsed) ==
  LET js == OfType(walk(parsed), "Join")
  IN  <<>> \o [i \in 1..Len(js) |-> js[i].toks[4]]

\* parseutil.ExtractAliasedIdentifier: the Aliased nodes outside subqueries
ExtractAliasedIdentifier(parsed) == OfType(walk(parsed), "Aliased")

----------------------------------------------------------------------------
(* The catalog (internal/database.DBCache) *)

ColumnDesc(schema, table, name) == [Schema |-> schema, Table |-> table, Name |-> name]

\* no catalog attached (a nil *DBCache)
NilCache ==
  [nil |-> TRUE, defaultSchema |-> <<>>, Schemas |-> <<>>,
   SchemaTables |-> <<>>, ColumnsWithParent |-> <<>>]

\* columnDatabaseKey: the upper-cased (schema, table) pair
columnDatabaseKey(dbName, tableName) == <<ToUpper(dbName), ToUpper(tableName)>>

\* a catalog from its default schema and a list of [schema, table, cols]
MakeCache(defaultSchema, schemas, entries) ==
  [nil |-> FALSE,
   defaultSchema |-> defaultSchema,
   Schemas |-> schemas,
   SchemaTables |->
     [sc \in {schemas[i] : i \in 1..Len(schemas)} |->
        LET es == SelectSeq(entries, LAMBDA e : e.schema = sc)
        IN  [i \in 1..Len(es) |-> es[i].table]],
   ColumnsWithParent |->
     [k \in {columnDatabaseKey(entries[i].schema, entries[i].table) : i \in 1..Len(entries)} |->
        LET e == entries[CHOOSE i \in 1..Len(entries) :
                           columnDatabaseKey(entries[i].schema, entries[i].table) = k]
        IN  [j \in 1..Len(e.cols) |-> ColumnDesc(e.schema, e.table, e.cols[j])]]]

\* DBCache.SortedSchemas
SortedSchemas(dc) == dc.Schemas

\* DBCache.SortedTables: the tables of the default schema
SortedTables(dc) ==
  IF dc.defaultSchema \in DOMAIN dc.SchemaTables
    THEN dc.SchemaTables[dc.defaultSchema] ELSE <<>>

\* DBCache.ColumnDatabase: the columns of schema.table, and whether found
ColumnDatabase(dc, dbName, tableName) ==
  LET k == columnDatabaseKey(dbName, tableName)
  IN  IF k \in DOMAIN dc.ColumnsWithParent
        THEN [cols |-> dc.ColumnsWithParent[k], ok |-> TRUE]
        ELSE [cols |-> <<>>, ok |-> FALSE]

\* the index of the first "." of a name, 0 if none
PeriodAt(s) ==
  IF \E i \in 1..Len(s) : s[i] = "."
    THEN CHOOSE i \in 1..Len(s) : s[i] = "." /\ \A j \in 1..(i - 1) : s[j] # "."
    ELSE 0

\* DBCache.ColumnDescs: the columns of a bare table name (default schema)
\* or of a schema-qualified name
ColumnDescs(dc, tableName) ==
  IF PeriodAt(tableName) = 0
    THEN ColumnDatabase(dc, dc.defaultSchema, tableName)
    ELSE ColumnDatabase(dc, SubSeq(tableName, 1, PeriodAt(tableName) - 1),
                        SubSeq(tableName, PeriodAt(tableName) + 1, Len(tableName)))

----------------------------------------------------------------------------
(* Configuration (internal/lintconfig) *)

\* lintconfig.DefaultConfig
DefaultMaxDiagnostics == 100

DefaultConfig ==
  [Enabled |-> TRUE,
   CheckSyntax |-> TRUE,
   CheckTableReferences |-> TRUE,
   CheckColumnReferences |-> TRUE,
   CheckSchemaReferences |-> TRUE,
   WarnOnSelectStar |-> TRUE,
   WarnOnNullComparison |-> TRUE,
   WarnOnUnusedAlias |-> FALSE,
   WarnOnImplicitJoin |-> TRUE,
   WarnOnAmbiguousColumn |-> TRUE,
   CheckReservedWordCase |-> "off",
   PreferredKeywordCase |-> "upper",
   CheckMissingSemicolon |-> "off",
   MaxDiagnostics |-> DefaultMaxDiagnostics]

\* Config.IsRuleEnabled
IsRuleEnabled(severity) == severity # "off"

SeverityError == 1

SeverityWarning == 2

SeverityInfo == 3

SeverityHint == 4

\* lintconfig.GetDiagnosticSeverity
GetDiagnosticSeverity(ruleSeverity) ==
  CASE ruleSeverity = "error" -> SeverityError
    [] ruleSeverity = "warning" -> SeverityWarning
    [] ruleSeverity = "info" -> SeverityInfo
    [] ruleSeverity = "hint" -> SeverityHint
    [] OTHER -> SeverityWarning

----------------------------------------------------------------------------
(* Diagnostics (internal/diagnostic) *)

\* posToRange: token positions are 1-based, ranges are 0-based
posToRange(start, end) ==
  [Start |-> [Line |-> start.Line - 1, Character |-> start.Col - 1],
   End |-> [Line |-> end.Line - 1, Character |-> end.Col - 1]]

\* a message: its template and the strings substituted into it
Msg(fmt, args) == [fmt |-> fmt, args |-> args]

\* diagnostic.FormatError
FormatError(code, args) ==
  CASE code = "table-not-found" -> Msg("Table '%s' not found", args)
    [] code = "column-not-found" -> Msg("Column '%s' not found in table '%s'", args)
    [] code = "ambiguous-column" -> Msg("Column '%s' is ambiguous, found in tables: %s", args)
    [] code = "invalid-schema" -> Msg("Schema '%s' does not exist", args)
    [] code = "select-star" ->
         Msg("Use of SELECT * is discouraged, specify columns explicitly", args)
    [] code = "null-comparison" ->
         Msg("Comparing with NULL using '=' or '!=', use 'IS NULL' or 'IS NOT NULL'", args)
    [] code = "unused-alias" -> Msg("Alias '%s' is defined but never used", args)
    [] code = "reserved-word-case" -> Msg("Reserved word '%s' should be %s", args)
    [] code = "missing-semicolon" -> Msg("Missing semicolon at end of statement", args)
    [] OTHER -> Msg("%s: %v", args)

\* the Diagnostic that DiagnosticBuilder.AddError/AddWarning/AddInfo/AddHint appends
Diagnostic(start, end, severity, code, message) ==
  [Range |-> posToRange(start, end), Severity |-> severity, Code |-> code,
   Source |-> "sqls", Message |-> message]

AddError(start, end, code, message) ==
  <<Diagnostic(start, end, SeverityError, code, message)>>

AddWarning(start, end, code, message) ==
  <<Diagnostic(start, end, SeverityWarning, code, message)>>

\* the Add call chosen by a configured severity (emitCaseDiagnostic,
\* checkMissingSemicolon)
AddWithSeverity(start, end, severity, code, message) ==
  IF severity \in {SeverityError, SeverityWarning, SeverityInfo, SeverityHint}
    THEN <<Diagnostic(start, end, severity, code, message)>>
    ELSE <<>>

----------------------------------------------------------------------------
(* Table validation (internal/linter/validator/table_validator.go) *)

\* a keyword-like token: words, quoted identifiers and keywords alike
\* carry a SQLWord whose Keyword is the upper-cased text
WordOf(t) == ToUpper(t.raw)

RECURSIVE ImplicitScan(_, _, _, _)
\* the loop of CheckImplicitJoins: the last comma seen inside a FROM span
ImplicitScan(toks, i, inFrom, lastComma) ==
  IF i > Len(toks) THEN lastComma
  ELSE LET t == toks[i] IN
    IF t.Kind = "SQLKeyword"
      THEN IF WordOf(t) = kFROM THEN ImplicitScan(toks, i + 1, TRUE, NoTok)
           ELSE IF WordOf(t) \in {kJOIN, kWHERE, kON}
             THEN ImplicitScan(toks, i + 1, FALSE, lastComma)
           ELSE ImplicitScan(toks, i + 1, inFrom, lastComma)
      ELSE IF inFrom /\ t.Kind = "Comma"
             THEN ImplicitScan(toks, i + 1, inFrom, t)
             ELSE ImplicitScan(toks, i + 1, inFrom, lastComma)

\* TableValidator.CheckImplicitJoins
CheckImplicitJoins(t) ==
  LET p == Parse(t)
      lastComma == ImplicitScan(flattenTokens(p.root), 1, FALSE, NoTok)
  IN  IF p.err THEN <<>>
      ELSE IF lastComma # NoTok
             THEN AddWarning(lastComma.From, lastComma.To, "implicit-join",
                    Msg("Implicit join detected, consider using explicit JOIN syntax", <<>>))
             ELSE <<>>

PartialKeywords ==
  { <<"J","O","I","N">>, <<"L","E","F","T">>, <<"R","I","G","H","T">>,
    <<"I","N","N","E","R">>, <<"O","U","T","E","R">>, <<"C","R","O","S","S">>,
    <<"F","U","L","L">>, <<"W","H","E","R","E">>, <<"G","R","O","U","P">>,
    <<"O","R","D","E","R">>, <<"H","A","V","I","N","G">>, <<"L","I","M","I","T">>,
    <<"O","F","F","S","E","T">>, <<"U","N","I","O","N">>,
    <<"I","N","T","E","R","S","E","C","T">>, <<"E","X","C","E","P","T">>,
    <<"A","N","D">>, <<"O","R">>, <<"N","O","T">>, <<"I","N">>,
    <<"E","X","I","S","T","S">>, <<"L","I","K","E">>,
    <<"B","E","T","W","E","E","N">>, <<"A","S">>, <<"O","N">>,
    <<"U","S","I","N","G">>, <<"W","I","T","H">> }

\* mightBePartialKeyword matching whole keywords only
mightBePartialKeywordWhole(s) == ToUpper(s) \in PartialKeywords

\* TableValidator.mightBePartialKeyword
mightBePartialKeyword(s) == \E kw \in PartialKeywords : HasPrefix(kw, ToUpper(s))

\* TableValidator.schemaExists
schemaExists(v, schemaName) ==
  IF v.dbCache.nil THEN TRUE
  ELSE \E i \in 1..Len(SortedSchemas(v.dbCache)) :
         EqualFold(SortedSchemas(v.dbCache)[i], schemaName)

InList(tables, tableName) == \E i \in 1..Len(tables) : EqualFold(tables[i], tableName)

\* TableValidator.tableExists
tableExists(v, tableName, schemaName) ==
  IF v.dbCache.nil THEN TRUE
  ELSE IF schemaName # <<>>
    THEN schemaName \in DOMAIN v.dbCache.SchemaTables
         /\ InList(v.dbCache.SchemaTables[schemaName], tableName)
  ELSE InList(SortedTables(v.dbCache), tableName)
       \/ \E sc \in DOMAIN v.dbCache.SchemaTables :
            InList(v.dbCache.SchemaTables[sc], tableName)

\* TableValidator.formatTableName
formatTableName(schema, table) ==
  IF schema # <<>> THEN schema \o <<".">> \o table ELSE table

PartialKeywordMaxLen == 4

\* TableValidator.validateTableReference
validateTableReference(v, schemaName, tableName, startPos, endPos) ==
  IF tableName = <<>> /\ schemaName = <<>> THEN <<>>
  ELSE IF Len(tableName) <= PartialKeywordMaxLen /\ mightBePartialKeyword(tableName) THEN <<>>
  ELSE IF schemaName # <<>> /\ ~schemaExists(v, schemaName)
    THEN AddError(startPos, endPos, "invalid-schema",
                  FormatError("invalid-schema", <<schemaName>>))
  ELSE IF ~tableExists(v, tableName, schemaName)
    THEN AddError(startPos, endPos, "table-not-found",
                  FormatError("table-not-found", <<formatTableName(schemaName, tableName)>>))
  ELSE <<>>

RECURSIVE validateNodeAsTable(_, _)
\* TableValidator.validateNodeAsTable
validateNodeAsTable(v, n) ==
  CASE n.type = "Identifier" ->
         validateTableReference(v, <<>>, NoQuoteString(n), NodePos(n), NodeEnd(n))
    [] n.type = "MemberIdentifier" ->
         validateTableReference(v, NodeString(ParentIdent(n)), NodeString(ChildIdent(n)),
                                NodePos(n), NodeEnd(n))
    [] n.type = "Aliased" ->
         ( CASE RealName(n).type = "Identifier" ->
                  validateTableReference(v, <<>>, NoQuoteString(RealName(n)),
                                         NodePos(n), NodeEnd(n))
             [] RealName(n).type = "MemberIdentifier" ->
                  validateTableReference(v, NodeString(ParentIdent(RealName(n))),
                                         NodeString(ChildIdent(RealName(n))),
                                         NodePos(n), NodeEnd(n))
             [] OTHER -> <<>> )
    [] n.type = "IdentifierList" ->
         FlatMap(LAMBDA id : validateNodeAsTable(v, id), GetIdentifiers(n))
    [] OTHER -> <<>>

\* the nodes of the three table extraction points, in the order of the code
TableNodes(parsed) ==
  ExtractTableReferences(parsed) \o ExtractTableReference(parsed)
    \o ExtractTableFactor(parsed)

\* TableValidator.Validate
TableValidate(v, t) ==
  IF ~v.config.CheckTableReferences THEN <<>>
  ELSE IF v.dbCache.nil THEN <<>>
  ELSE LET p == Parse(t) IN
    IF p.err THEN <<>>
    ELSE FlatMap(LAMBDA n : validateNodeAsTable(v, n), TableNodes(p.root))
         \o (IF v.config.WarnOnImplicitJoin THEN CheckImplicitJoins(t) ELSE <<>>)

----------------------------------------------------------------------------
(* Column validation (internal/linter/validator/column_validator.go) *)

\* parseutil.TableInfo
TableInfo(schema, name, alias) == [DatabaseSchema |-> schema, Name |-> name, Alias |-> alias]

\* a Go map as a function; later writes replace earlier ones
EmptyMap == [k \in {} |-> <<>>]

MapPut(m, k, val) == [x \in DOMAIN m \cup {k} |-> IF x = k THEN val ELSE m[x]]

RECURSIVE toInfos(_)
\* toInfos of extractTables: the TableInfo values of a table-position node
toInfos(n) ==
  CASE n.type = "Identifier" -> <<TableInfo(<<>>, NoQuoteString(n), <<>>)>>
    [] n.type = "MemberIdentifier" ->
         <<TableInfo(NodeString(ParentIdent(n)), NodeString(ChildIdent(n)), <<>>)>>
    [] n.type = "Aliased" ->
         ( CASE RealName(n).type = "Identifier" ->
                  <<TableInfo(<<>>, NoQuoteString(RealName(n)), NoQuoteString(AliasedName(n)))>>
             [] RealName(n).type = "MemberIdentifier" ->
                  <<TableInfo(NodeString(ParentIdent(RealName(n))),
                              NodeString(ChildIdent(RealName(n))),
                              NoQuoteString(AliasedName(n)))>>
             [] OTHER -> <<>> )
    [] n.type = "IdentifierList" -> FlatMap(toInfos, GetIdentifiers(n))
    [] OTHER -> <<>>

RECURSIVE aliasWrites(_)
\* the writes toInfos makes to aliasMap, in order: <<lower-cased alias, table>>
aliasWrites(n) ==
  CASE n.type = "Aliased" ->
         ( CASE RealName(n).type = "Identifier" ->
                  << <<ToLower(NoQuoteString(AliasedName(n))), NoQuoteString(RealName(n))>> >>
             [] RealName(n).type = "MemberIdentifier" ->
                  << <<ToLower(NoQuoteString(AliasedName(n))),
                       NoQuoteString(ChildIdent(RealName(n)))>> >>
             [] OTHER -> <<>> )
    [] n.type = "IdentifierList" -> FlatMap(aliasWrites, GetIdentifiers(n))
    [] OTHER -> <<>>

RECURSIVE MapOfWrites(_)
MapOfWrites(ws) ==
  IF ws = <<>> THEN EmptyMap
  ELSE MapPut(MapOfWrites(SubSeq(ws, 1, Len(ws) - 1)), ws[Len(ws)][1], ws[Len(ws)][2])

\* the alias map written only for the table infos that survive the
\* deduplication of extractTables
extractAliasMapDeduped(parsed) ==
  LET all == FlatMap(toInfos, TableNodes(parsed))
      first(i) == \A j \in 1..(i - 1) :
                    <<ToUpper(all[j].DatabaseSchema), ToUpper(all[j].Name)>>
                      # <<ToUpper(all[i].DatabaseSchema), ToUpper(all[i].Name)>>
      kept == {i \in 1..Len(all) : first(i) /\ all[i].Alias # <<>>}
  IN  [a \in {ToLower(all[i].Alias) : i \in kept} |->
         all[CHOOSE i \in kept : ToLower(all[i].Alias) = a
                                  /\ \A k \in kept : ToLower(all[k].Alias) = a => k <= i].Name]

\* the alias map extractTables fills: lower-cased alias -> table name
extractAliasMap(parsed) == MapOfWrites(FlatMap(aliasWrites, TableNodes(parsed)))

infoKey(ti) == <<ToUpper(ti.DatabaseSchema), ToUpper(ti.Name)>>

RECURSIVE DedupInfos(_, _)
DedupInfos(infos, seen) ==
  IF infos = <<>> THEN <<>>
  ELSE IF infoKey(Head(infos)) \in seen THEN DedupInfos(Tail(infos), seen)
  ELSE <<Head(infos)>> \o DedupInfos(Tail(infos), seen \cup {infoKey(Head(infos))})

\* ColumnValidator.extractTables: the table list, first occurrence of each
\* (schema, name) kept
extractTables(parsed) == DedupInfos(FlatMap(toInfos, TableNodes(parsed)), {})

\* the three catalog lookups of buildColumnContext for one table
lookupColumns(dc, ti) ==
  LET byName == ColumnDescs(dc, ti.Name)
      byFull == IF ~byName.ok /\ ti.DatabaseSchema # <<>>
                  THEN ColumnDescs(dc, ti.DatabaseSchema \o <<".">> \o ti.Name)
                  ELSE byName
      hits == SelectSeq(SortedSchemas(dc), LAMBDA sc : ColumnDatabase(dc, sc, ti.Name).ok)
  IN  IF byFull.ok THEN byFull
      ELSE IF hits # <<>> THEN ColumnDatabase(dc, hits[1], ti.Name)
      ELSE [cols |-> <<>>, ok |-> FALSE]

RECURSIVE mergeColumns(_, _)
\* the loop that appends the columns of one table to AllColumns
mergeColumns(all, cols) ==
  IF cols = <<>> THEN all
  ELSE LET k == ToLower(Head(cols).Name)
       IN  mergeColumns(MapPut(all, k, IF k \in DOMAIN all THEN Append(all[k], Head(cols))
                                        ELSE <<Head(cols)>>),
                        Tail(cols))

EmptyContext == [TableColumns |-> EmptyMap, TableAliases |-> EmptyMap, AllColumns |-> EmptyMap]

\* one iteration of the loop of buildColumnContext
addTable(dc, context, ti) ==
  LET found == lookupColumns(dc, ti)
      withAlias == IF ti.Alias # <<>>
                     THEN MapPut(context.TableAliases, ToLower(ti.Alias), ti.Name)
                     ELSE context.TableAliases
  IN  IF found.ok /\ Len(found.cols) > 0
        THEN [TableColumns |-> MapPut(context.TableColumns, ToLower(ti.Name), found.cols),
              TableAliases |-> MapPut(withAlias, ToLower(ti.Name), ti.Name),
              AllColumns |-> mergeColumns(context.AllColumns, found.cols)]
        ELSE context

RECURSIVE buildFrom(_, _, _)
buildFrom(dc, context, tables) ==
  IF tables = <<>> THEN context
  ELSE buildFrom(dc, addTable(dc, context, Head(tables)), Tail(tables))

\* ColumnValidator.buildColumnContext
buildColumnContext(dc, tables) == buildFrom(dc, EmptyContext, tables)

SeqToSet(xs) == {xs[i] : i \in 1..Len(xs)}

RECURSIVE collectTableRefPositions(_)
\* collectTableRefPositions: the positions of identifiers in table position
collectTableRefPositions(n) ==
  CASE n.type = "Identifier" -> {NodePos(n)}
    [] n.type = "MemberIdentifier" -> {NodePos(ChildIdent(n)), NodePos(ParentIdent(n))}
    [] n.type = "Aliased" -> collectTableRefPositions(RealName(n))
    [] n.type = "IdentifierList" ->
         UNION {collectTableRefPositions(id) : id \in SeqToSet(GetIdentifiers(n))}
    [] OTHER -> {}

\* the position set skipIdentifierPositions built at the start of Validate
skipIdentifierPositions(parsed) ==
  LET all == walk(parsed)
      members == OfType(all, "MemberIdentifier")
      aliased == OfType(all, "Aliased")
  IN  UNION {{NodePos(ParentIdent(m)), NodePos(ChildIdent(m))} : m \in SeqToSet(members)}
      \cup UNION {collectTableRefPositions(n) : n \in SeqToSet(TableNodes(parsed))}
      \cup UNION {{NodePos(c) : c \in SeqToSet(OfType(walk(AliasedName(al)), "Identifier"))} :
                    al \in SeqToSet(aliased)}

MySQLDrivers == {"mysql", "mysql8", "mysql57", "mysql56"}

\* isMySQLDriver recognising only the unversioned driver name
isMySQLDriverUnversioned(v) == v.driver = "mysql"

\* ColumnValidator.isMySQLDriver
isMySQLDriver(v) == v.driver \in MySQLDrivers

\* ColumnValidator.isStringLiteral
isStringLiteral(v, id) ==
  \/ id.tok.Kind = "SingleQuotedString"
  \/ /\ Len(TokString(id.tok)) >= 2
     /\ \/ TokString(id.tok)[1] = "'"
        \/ TokString(id.tok)[1] = "\"" /\ isMySQLDriver(v)

CommonKeywords ==
  { <<"S","E","L","E","C","T">>, <<"F","R","O","M">>, <<"W","H","E","R","E">>,
    <<"J","O","I","N">>, <<"L","E","F","T">>, <<"R","I","G","H","T">>,
    <<"I","N","N","E","R">>, <<"O","U","T","E","R">>, <<"O","N">>, <<"A","N","D">>,
    <<"O","R">>, <<"N","O","T">>, <<"I","N">>, <<"E","X","I","S","T","S">>,
    <<"B","E","T","W","E","E","N">>, <<"L","I","K","E">>, <<"O","R","D","E","R">>,
    <<"G","R","O","U","P">>, <<"B","Y">>, <<"H","A","V","I","N","G">>,
    <<"L","I","M","I","T">>, <<"O","F","F","S","E","T">>, <<"I","N","S","E","R","T">>,
    <<"U","P","D","A","T","E">>, <<"D","E","L","E","T","E">>, <<"C","R","E","A","T","E">>,
    <<"D","R","O","P">>, <<"A","L","T","E","R">>, <<"A","S">>, <<"A","S","C">>,
    <<"D","E","S","C">>, <<"N","U","L","L">>, <<"I","S">>, <<"T","R","U","E">>,
    <<"F","A","L","S","E">> }

\* ColumnValidator.looksLikeColumnReference
looksLikeColumnReference(id) == ToUpper(NodeString(id)) \notin CommonKeywords

RECURSIVE uniqueTables(_, _)
\* the distinct Table values of a descriptor list, in first-seen order
uniqueTables(cols, seen) ==
  IF cols = <<>> THEN <<>>
  ELSE IF Head(cols).Table \in seen THEN uniqueTables(Tail(cols), seen)
  ELSE <<Head(cols).Table>> \o uniqueTables(Tail(cols), seen \cup {Head(cols).Table})

\* the ambiguity check without its test of WarnOnAmbiguousColumn
ambiguityCheckUngated(v, id, context) ==
  LET name == NoQuoteString(id)
      cols == context.AllColumns[ToLower(name)]
      unique == uniqueTables(cols, {})
  IN  IF Len(cols) > 1 /\ Len(unique) > 1
        THEN AddWarning(NodePos(id), NodeEnd(id), "ambiguous-column",
               FormatError("ambiguous-column", <<name, Join(unique, CommaSpace)>>))
        ELSE <<>>

\* the ambiguity check shared by the three sweeps
ambiguityCheck(v, id, context) ==
  LET name == NoQuoteString(id)
      cols == context.AllColumns[ToLower(name)]
      unique == uniqueTables(cols, {})
  IN  IF Len(cols) > 1 /\ v.config.WarnOnAmbiguousColumn /\ Len(unique) > 1
        THEN AddWarning(NodePos(id), NodeEnd(id), "ambiguous-column",
               FormatError("ambiguous-column", <<name, Join(unique, CommaSpace)>>))
        ELSE <<>>

\* the guards every sweep applies before resolving an identifier
skipped(v, id, skip, aliasMap) ==
  \/ NodePos(id) \in skip
  \/ isStringLiteral(v, id)
  \/ NoQuoteString(id) = <<>>
  \/ IsWildcard(id)
  \/ ToLower(NoQuoteString(id)) \in DOMAIN aliasMap

notFoundAnywhere(id) ==
  AddError(NodePos(id), NodeEnd(id), "column-not-found",
           Msg("Column '%s' not found in any referenced table", <<NoQuoteString(id)>>))

\* the callback of the SELECT-list sweep and of the WHERE sweep
checkListIdentifier(v, id, skip, aliasMap, context) ==
  IF skipped(v, id, skip, aliasMap) THEN <<>>
  ELSE IF ToLower(NoQuoteString(id)) \notin DOMAIN context.AllColumns
    THEN IF DOMAIN context.TableColumns # {} /\ looksLikeColumnReference(id)
           THEN notFoundAnywhere(id)
           ELSE <<>>
  ELSE ambiguityCheck(v, id, context)

\* the callback of the whole-statement sweep
checkAnyIdentifier(v, id, skip, aliasMap, context, tables) ==
  IF skipped(v, id, skip, aliasMap) THEN <<>>
  ELSE IF ToLower(NoQuoteString(id)) \notin DOMAIN context.AllColumns
    THEN IF \E i \in 1..Len(tables) : EqualFold(tables[i].Name, NoQuoteString(id))
           THEN AddError(NodePos(id), NodeEnd(id), "column-not-found",
                  Msg("'%s' is a table name, not a column. Did you mean '%s.column_name'?",
                      <<NoQuoteString(id), NoQuoteString(id)>>))
         ELSE IF DOMAIN context.TableColumns # {} /\ looksLikeColumnReference(id)
           THEN notFoundAnywhere(id)
         ELSE <<>>
  ELSE ambiguityCheck(v, id, context)

\* the column lookup of the qualified walk: context, then catalog, then
\* every schema
qualifiedColumns(v, context, tableName) ==
  LET direct == ColumnDescs(v.dbCache, tableName)
      hits == SelectSeq(SortedSchemas(v.dbCache),
                        LAMBDA sc : ColumnDatabase(v.dbCache, sc, tableName).ok)
  IN  IF ToLower(tableName) \in DOMAIN context.TableColumns
        THEN [cols |-> context.TableColumns[ToLower(tableName)], ok |-> TRUE]
      ELSE IF direct.ok THEN direct
      ELSE IF hits # <<>> THEN ColumnDatabase(v.dbCache, hits[1], tableName)
      ELSE [cols |-> <<>>, ok |-> FALSE]

\* checkMember reporting a missing column at the span of the whole
\* reference instead of the span of its column part
checkMemberWholeSpan(v, m, aliasMap, context, tables) ==
  LET parentName == NoQuoteString(ParentIdent(m))
      isValidAlias == ToLower(parentName) \in DOMAIN aliasMap
      tableName == IF isValidAlias THEN aliasMap[ToLower(parentName)] ELSE parentName
      isValidTable == \E i \in 1..Len(tables) :
                         \/ EqualFold(tables[i].Name, parentName)
                         \/ EqualFold(tables[i].Alias, parentName)
      colName == NoQuoteString(ChildIdent(m))
      found == qualifiedColumns(v, context, tableName)
  IN  IF ~isValidAlias /\ ToLower(parentName) \notin DOMAIN context.TableColumns
         /\ ~isValidTable
        THEN AddError(NodePos(ParentIdent(m)), NodeEnd(ParentIdent(m)), "table-not-found",
                      Msg("Table or alias '%s' not found in query", <<parentName>>))
      ELSE IF IsWildcard(ChildIdent(m)) \/ colName = sStar \/ colName = <<>> THEN <<>>
      ELSE IF ~found.ok \/ Len(found.cols) = 0 THEN <<>>
      ELSE IF \E i \in 1..Len(found.cols) : EqualFold(found.cols[i].Name, colName) THEN <<>>
      ELSE AddError(NodePos(m), NodeEnd(m), "column-not-found",
                    FormatError("column-not-found", <<colName, tableName>>))

\* the callback of the qualified walk on one MemberIdentifier
checkMember(v, m, aliasMap, context, tables) ==
  LET parentName == NoQuoteString(ParentIdent(m))
      isValidAlias == ToLower(parentName) \in DOMAIN aliasMap
      tableName == IF isValidAlias THEN aliasMap[ToLower(parentName)] ELSE parentName
      isValidTable == \E i \in 1..Len(tables) :
                         \/ EqualFold(tables[i].Name, parentName)
                         \/ EqualFold(tables[i].Alias, parentName)
      colName == NoQuoteString(ChildIdent(m))
      found == qualifiedColumns(v, context, tableName)
  IN  IF ~isValidAlias /\ ToLower(parentName) \notin DOMAIN context.TableColumns
         /\ ~isValidTable
        THEN AddError(NodePos(ParentIdent(m)), NodeEnd(ParentIdent(m)), "table-not-found",
                      Msg("Table or alias '%s' not found in query", <<parentName>>))
      ELSE IF IsWildcard(ChildIdent(m)) \/ colName = sStar \/ colName = <<>> THEN <<>>
      ELSE IF ~found.ok \/ Len(found.cols) = 0 THEN <<>>
      ELSE IF \E i \in 1..Len(found.cols) : EqualFold(found.cols[i].Name, colName) THEN <<>>
      ELSE AddError(NodePos(ChildIdent(m)), NodeEnd(ChildIdent(m)), "column-not-found",
                    FormatError("column-not-found", <<colName, tableName>>))

\* the qualified walk of Validate
qualifiedWalk(v, parsed, aliasMap, context, tables) ==
  FlatMap(LAMBDA m : checkMember(v, m, aliasMap, context, tables),
          OfType(walk(parsed), "MemberIdentifier"))

\* sweep 1 of Validate: the SELECT list
selectSweep(v, parsed, skip, aliasMap, context) ==
  FlatMap(LAMBDA node :
            FlatMap(LAMBDA id : checkListIdentifier(v, id, skip, aliasMap, context),
                    OfType(walk(node), "Identifier")),
          ExtractSelectExpr(parsed))

\* sweep 2 of Validate: the WHERE conditions
whereSweep(v, parsed, skip, aliasMap, context) ==
  FlatMap(LAMBDA node :
            FlatMap(LAMBDA id : checkListIdentifier(v, id, skip, aliasMap, context),
                    OfType(walk(node), "Identifier")),
          ExtractWhereCondition(parsed))

\* sweep 3 of Validate: every identifier of the document
statementSweep(v, parsed, skip, aliasMap, context, tables) ==
  FlatMap(LAMBDA id : checkAnyIdentifier(v, id, skip, aliasMap, context, tables),
          OfType(walk(parsed), "Identifier"))

\* ColumnValidator.Validate without its early return on a missing catalog
ColumnValidateNoCatalogCheck(v, t) ==
  IF ~v.config.CheckColumnReferences THEN <<>>
  ELSE LET p == Parse(t)
           parsed == p.root
           aliasMap == extractAliasMap(parsed)
           tables == extractTables(parsed)
           context == buildColumnContext(v.dbCache, tables)
           skip == skipIdentifierPositions(parsed)
       IN  IF p.err THEN <<>>
           ELSE qualifiedWalk(v, parsed, aliasMap, context, tables)
                \o selectSweep(v, parsed, skip, aliasMap, context)
                \o whereSweep(v, parsed, skip, aliasMap, context)
                \o statementSweep(v, parsed, skip, aliasMap, context, tables)

\* ColumnValidator.Validate
ColumnValidate(v, t) ==
  IF ~v.config.CheckColumnReferences THEN <<>>
  ELSE IF v.dbCache.nil THEN <<>>
  ELSE LET p == Parse(t)
           parsed == p.root
           aliasMap == extractAliasMap(parsed)
           tables == extractTables(parsed)
           context == buildColumnContext(v.dbCache, tables)
           skip == skipIdentifierPositions(parsed)
       IN  IF p.err THEN <<>>
           ELSE qualifiedWalk(v, parsed, aliasMap, context, tables)
                \o selectSweep(v, parsed, skip, aliasMap, context)
                \o whereSweep(v, parsed, skip, aliasMap, context)
                \o statementSweep(v, parsed, skip, aliasMap, context, tables)

----------------------------------------------------------------------------
(* Syntax, style and auxiliary checks (syntax_validator.go,                *)
(* style_validator.go)                                                      *)

\* the callback of checkNullComparisons on one Comparison node
checkComparison(comp) ==
  LET toks == flattenTokens(comp)
      hasNull == \E i \in 1..Len(toks) :
                    toks[i].Kind = "SQLKeyword" /\ EqualFold(WordOf(toks[i]), kNULL)
      ops == SelectSeq(toks, LAMBDA t : t.Kind \in {"Eq", "Neq"})
  IN  IF hasNull /\ ops # <<>> /\ ops[Len(ops)].From # NoPos
        THEN AddWarning(ops[Len(ops)].From, ops[Len(ops)].To, "null-comparison",
                        FormatError("null-comparison", <<>>))
        ELSE <<>>

\* SyntaxValidator.checkNullComparisons
checkNullComparisons(v, parsed) ==
  IF ~v.config.WarnOnNullComparison THEN <<>>
  ELSE FlatMap(checkComparison, OfType(walk(parsed), "Comparison"))

\* SyntaxValidator.Validate
SyntaxValidate(v, parsed) == checkNullComparisons(v, parsed)

sKeyword == <<"k","e","y","w","o","r","d">>
sUppercase == <<"u","p","p","e","r","c","a","s","e">>
sLowercase == <<"l","o","w","e","r","c","a","s","e">>

\* StyleValidator.emitCaseDiagnostic
emitCaseDiagnostic(from, to, expectedCase, severity) ==
  AddWithSeverity(from, to, severity, "reserved-word-case",
                  FormatError("reserved-word-case", <<sKeyword, expectedCase>>))

\* the body of the loop of checkReservedWordCase on one token
checkTokenCase(v, t) ==
  LET preferUpper == v.config.PreferredKeywordCase = "upper"
      sev == GetDiagnosticSeverity(v.config.CheckReservedWordCase)
      isUpper == t.raw = ToUpper(t.raw)
      isLower == t.raw = ToLower(t.raw)
  IN  IF t.Kind # "SQLKeyword" THEN <<>>
      ELSE (IF preferUpper /\ ~isUpper /\ isLower
              THEN emitCaseDiagnostic(t.From, t.To, sUppercase, sev) ELSE <<>>)
           \o (IF ~preferUpper /\ ~isLower /\ isUpper
                 THEN emitCaseDiagnostic(t.From, t.To, sLowercase, sev) ELSE <<>>)

\* StyleValidator.checkReservedWordCase
checkReservedWordCase(v, parsed) ==
  FlatMap(LAMBDA t : checkTokenCase(v, t), flattenTokens(parsed))

\* the callback of checkMissingSemicolon on one Statement node
checkStatementSemicolon(v, stmt) ==
  LET toks == SelectSeq(flattenTokens(stmt),
                        LAMBDA t : t.Kind \notin {"Whitespace", "Comment", "MultilineComment"})
  IN  IF toks = <<>> THEN <<>>
      ELSE IF toks[Len(toks)].Kind # "Semicolon"
        THEN AddWithSeverity(NodeEnd(stmt), NodeEnd(stmt),
                             GetDiagnosticSeverity(v.config.CheckMissingSemicolon),
                             "missing-semicolon", FormatError("missing-semicolon", <<>>))
      ELSE <<>>

\* StyleValidator.checkMissingSemicolon
checkMissingSemicolon(v, parsed) ==
  FlatMap(LAMBDA stmt : checkStatementSemicolon(v, stmt), OfType(walk(parsed), "Statement"))

\* StyleValidator.Validate
StyleValidate(v, parsed) ==
  (IF IsRuleEnabled(v.config.CheckReservedWordCase)
     THEN checkReservedWordCase(v, parsed) ELSE <<>>)
  \o (IF IsRuleEnabled(v.config.CheckMissingSemicolon)
        THEN checkMissingSemicolon(v, parsed) ELSE <<>>)

RECURSIVE StarScan(_, _, _)
\* the token loop of CheckSelectStar on one statement
StarScan(toks, i, sawSelect) ==
  IF i > Len(toks) THEN <<>>
  ELSE LET t == toks[i] IN
    IF t.Kind = "SQLKeyword" /\ EqualFold(WordOf(t), kSELECT)
      THEN StarScan(toks, i + 1, TRUE)
    ELSE IF sawSelect /\ t.Kind = "Mult"
      THEN AddWarning(t.From, t.To, "select-star", FormatError("select-star", <<>>))
    ELSE IF sawSelect /\ t.Kind = "SQLKeyword" /\ EqualFold(WordOf(t), kFROM)
      THEN <<>>
    ELSE StarScan(toks, i + 1, sawSelect)

\* validator.CheckSelectStar
CheckSelectStar(parsed, cfg) ==
  IF ~cfg.WarnOnSelectStar THEN <<>>
  ELSE FlatMap(LAMBDA stmt : StarScan(flattenTokens(stmt), 1, FALSE),
               OfType(walk(parsed), "Statement"))

\* the map defs of CheckUnusedAliases: lower-cased alias -> defining identifier
aliasDefs(parsed) ==
  LET al == ExtractAliasedIdentifier(parsed)
  IN  MapOfWrites(<<>> \o [i \in 1..Len(al) |->
                     <<ToLower(NoQuoteString(AliasedName(al[i]))), AliasedName(al[i])>>])

\* the set used of CheckUnusedAliases: lower-cased qualifiers
usedQualifiers(parsed) ==
  {ToLower(NoQuoteString(ParentIdent(m))) : m \in SeqToSet(OfType(walk(parsed), "MemberIdentifier"))}

\* the orders in which a Go map with these keys can be ranged over
MapOrders(keys) ==
  {o \in [1..Cardinality(keys) -> keys] : \A i, j \in 1..Cardinality(keys) : o[i] = o[j] => i = j}

\* validator.CheckUnusedAliases, ranging over defs in the given order
CheckUnusedAliases(parsed, cfg, order) ==
  LET defs == aliasDefs(parsed)
      used == usedQualifiers(parsed)
  IN  IF ~cfg.WarnOnUnusedAlias THEN <<>>
      ELSE FlatMap(LAMBDA name :
                     IF name \notin used
                       THEN AddWarning(NodePos(defs[name]), NodeEnd(defs[name]), "unused-alias",
                                       FormatError("unused-alias", <<NoQuoteString(defs[name])>>))
                       ELSE <<>>,
                   order)

----------------------------------------------------------------------------
(* The coordinator (internal/linter/linter.go) *)

\* validator.NewTableValidator
NewTableValidator(cfg, dc) == [config |-> cfg, dbCache |-> dc]

\* validator.NewColumnValidator
NewColumnValidator(cfg, dc, drv) == [config |-> cfg, dbCache |-> dc, driver |-> drv]

\* validator.NewSyntaxValidator
NewSyntaxValidator(cfg) == [config |-> cfg]

\* validator.NewStyleValidator
NewStyleValidator(cfg) == [config |-> cfg]

\* linter.New
New(cfg, dc, drv) ==
  [config |-> cfg, dbCache |-> dc, driver |-> drv,
   syntaxValidator |-> NewSyntaxValidator(cfg),
   tableValidator |-> NewTableValidator(cfg, dc),
   columnValidator |-> NewColumnValidator(cfg, dc, drv),
   styleValidator |-> NewStyleValidator(cfg)]

\* the five stages of runValidators, each the diagnostics it appends
syntaxStage(l, parsed) ==
  IF l.config.CheckSyntax THEN SyntaxValidate(l.syntaxValidator, parsed) ELSE <<>>

tableStage(l, t) ==
  IF l.config.CheckTableReferences THEN TableValidate(l.tableValidator, t) ELSE <<>>

columnStage(l, t) ==
  IF l.config.CheckColumnReferences THEN ColumnValidate(l.columnValidator, t) ELSE <<>>

styleStage(l, parsed) == StyleValidate(l.styleValidator, parsed)

additionalStage(l, t, parsed, order) ==
  (IF l.config.WarnOnSelectStar THEN CheckSelectStar(parsed, l.config) ELSE <<>>)
  \o (IF l.config.WarnOnUnusedAlias THEN CheckUnusedAliases(parsed, l.config, order) ELSE <<>>)
  \o (IF l.config.WarnOnImplicitJoin THEN CheckImplicitJoins(t) ELSE <<>>)

\* runValidators with the style checks run right after the syntax checks
runValidatorsStyleEarly(l, t, parsed, order) ==
  syntaxStage(l, parsed)
  \o styleStage(l, parsed)
  \o tableStage(l, t)
  \o columnStage(l, t)
  \o additionalStage(l, t, parsed, order)

\* Linter.runValidators: the diagnostics appended to the builder
runValidators(l, t, parsed, order) ==
  syntaxStage(l, parsed)
  \o tableStage(l, t)
  \o columnStage(l, t)
  \o styleStage(l, parsed)
  \o additionalStage(l, t, parsed, order)

\* limitDiagnostics keeping the last MaxDiagnostics entries instead of the first
limitDiagnosticsKeepLast(l, diagnostics) ==
  IF l.config.MaxDiagnostics > 0 /\ Len(diagnostics) > l.config.MaxDiagnostics
    THEN SubSeq(diagnostics, Len(diagnostics) - l.config.MaxDiagnostics + 1, Len(diagnostics))
    ELSE diagnostics

\* Linter.limitDiagnostics
limitDiagnostics(l, diagnostics) ==
  IF l.config.MaxDiagnostics > 0 /\ Len(diagnostics) > l.config.MaxDiagnostics
    THEN SubSeq(diagnostics, 1, l.config.MaxDiagnostics)
    ELSE diagnostics

sParseFailed == <<"p","a","r","s","e">>

\* the contents of the builder when Lint calls db.Build()
Built(l, t, order) ==
  LET p == Parse(t)
  IN  IF p.err
        THEN AddError(Pos(0, 0), Pos(0, 0), "syntax-error",
                      Msg("Failed to parse SQL: %s", <<sParseFailed>>))
        ELSE runValidators(l, t, p.root, order)

\* the orders in which this pass can range over the alias definitions
AliasOrders(t) ==
  LET p == Parse(t) IN IF p.err THEN {<<>>} ELSE MapOrders(DOMAIN aliasDefs(p.root))

----------------------------------------------------------------------------
(* Inputs of the model: configurations and catalogs *)

\* every check on, style rules reported as warnings, no limit
StrictConfig ==
  [DefaultConfig EXCEPT !.WarnOnUnusedAlias = TRUE,
                        !.CheckReservedWordCase = "warning",
                        !.CheckMissingSemicolon = "warning",
                        !.MaxDiagnostics = 0]

Toggles ==
  { "Enabled", "CheckSyntax", "CheckTableReferences", "CheckColumnReferences",
    "CheckSchemaReferences", "WarnOnSelectStar", "WarnOnNullComparison",
    "WarnOnUnusedAlias", "WarnOnImplicitJoin", "WarnOnAmbiguousColumn" }

Flip(cfg, f) == IF f \in Toggles THEN [cfg EXCEPT ![f] = ~cfg[f]] ELSE cfg

Configs ==
  { Flip(StrictConfig, f) : f \in Toggles }
  \cup { [StrictConfig EXCEPT !.MaxDiagnostics = k] : k \in 0..MaxLimit }
  \cup { DefaultConfig,
         [StrictConfig EXCEPT !.CheckReservedWordCase = "off", !.CheckMissingSemicolon = "off"],
         [StrictConfig EXCEPT !.CheckReservedWordCase = "error", !.PreferredKeywordCase = "lower"] }

\* users and orders both in the default schema
Catalog1 ==
  MakeCache(sPublic, <<sPublic>>,
            << [schema |-> sPublic, table |-> sUsers, cols |-> <<sId, sNameCap>>],
               [schema |-> sPublic, table |-> sOrders, cols |-> <<sId, sTotal>>] >>)

sSales == <<"s","a","l","e","s">>

\* orders lives in a second schema and is found only by the search of all
\* schemas; users has two columns whose names differ only in case
Catalog2 ==
  MakeCache(sPublic, <<sPublic, sSales>>,
            << [schema |-> sPublic, table |-> sUsers, cols |-> <<sId, sNameCap, sName>>],
               [schema |-> sSales, table |-> sOrders, cols |-> <<sId, sTotal>>] >>)

Caches == {NilCache, Catalog1, Catalog2}

Drivers == {"postgresql", "mysql", "mysql8", "mysql57", "mysql56", ""}

\* the (configuration, catalog, driver) triples a linter is built over
Setups ==
  ((Configs \X {NilCache, Catalog1}) \X {"postgresql"})
  \cup (({StrictConfig, DefaultConfig} \X {Catalog2}) \X {"postgresql"})
  \cup (({StrictConfig} \X {Catalog1}) \X Drivers)

----------------------------------------------------------------------------
(* The state machine: a linter is built over (config, catalog, driver) and *)
(* Lint is called on the document.                                          *)

Init ==
  /\ text \in Texts
  /\ \E su \in Setups : config = su[1][1] /\ dbCache = su[1][2] /\ driver = su[2]
  /\ linter = New(config, dbCache, driver)
  /\ db = <<>>
  /\ results = <<>>
  /\ published = [sent |-> FALSE, Diagnostics |-> <<>>]
  /\ requests = <<>>

\* Lint without its early return when the linter is disabled
LintIgnoringEnabled ==
  /\ Len(results) < MaxRuns
  /\ \E order \in AliasOrders(text) :
       LET built == Built(linter, text, order)
       IN  /\ db' = built
           /\ results' = Append(results, limitDiagnostics(linter, built))
  /\ UNCHANGED <<text, config, dbCache, driver, linter>>

\* Linter.Lint(text): one pass; db is the builder of the pass, the returned
\* list is appended to results
Lint ==
  /\ Len(results) < MaxRuns
  /\ \E order \in AliasOrders(text) :
       LET built == IF linter.config.Enabled THEN Built(linter, text, order) ELSE <<>>
       IN  /\ db' = built
           /\ results' = Append(results, IF linter.config.Enabled
                                           THEN limitDiagnostics(linter, built) ELSE <<>>)
  /\ UNCHANGED <<text, config, dbCache, driver, linter>>

\* Server.publishDiagnostics: the notification parameters sent to the client
publishDiagnostics(diagnostics) ==
  [sent |-> TRUE,
   Diagnostics |->
     <<>> \o [i \in 1..Len(diagnostics) |->
                [Range |-> [Start |-> [Line |-> diagnostics[i].Range.Start.Line,
                                       Character |-> diagnostics[i].Range.Start.Character],
                            End |-> [Line |-> diagnostics[i].Range.End.Line,
                                     Character |-> diagnostics[i].Range.End.Character]],
                 Severity |-> diagnostics[i].Severity,
                 Code |-> diagnostics[i].Code,
                 Source |-> diagnostics[i].Source,
                 Message |-> diagnostics[i].Message]]]

\* Server.lintDocument on the open document: the linter (built by
\* initializeLinter over the configuration, the worker's cache and the
\* driver) lints the text and the list it returns is published
lintDocument ==
  /\ Lint
  /\ published' = publishDiagnostics(results'[Len(results')])
  /\ UNCHANGED requests

Next == lintDocument

Spec == Init /\ [][Next]_vars

----------------------------------------------------------------------------
(* The server under several lint requests (internal/handler/diagnostics.go): *)
(* text is the server's copy of the document, dbCache the snapshot the       *)
(* worker currently holds, driver the driver of the current connection,      *)
(* linter the Linter shared by all requests; requests holds the executions   *)
(* of lintDocument, in the order they were issued                            *)

\* s.linter before the first lintDocument
NilLinter == [nil |-> TRUE]

\* Linter.UpdateDBCache
UpdateDBCache(l, dc) ==
  [l EXCEPT !.dbCache = dc,
            !.tableValidator = NewTableValidator(l.config, dc),
            !.columnValidator = NewColumnValidator(l.config, dc, l.driver)]

\* Server.initializeLinter: the Linter built over the configuration, the
\* worker's cache and the driver of the current connection
initializeLinter == New(config, dbCache, driver)

\* the documents, snapshots and drivers of the server
ServerTexts ==
  { [ok |-> TRUE, stmts |-> <<st>>] :
      st \in { Stmt(<<eId>>, <<tUsers>>, <<>>, <<>>, TRUE, FALSE),
               Stmt(<<eDQZzz>>, <<tUsers>>, <<>>, <<Cmp(eDQZzz, "Eq", eSQZzz)>>, TRUE, FALSE) } }

ServerCaches == {Catalog1, Catalog2}

ServerDrivers == {"postgresql", "mysql"}

\* an execution of lintDocument that has not run its first statement
NewRequest ==
  [pc |-> "start", Text |-> [ok |-> FALSE, stmts |-> <<>>], diagnostics |-> <<>>,
   tableCache |-> NilCache, columnCache |-> NilCache,
   driverAtStart |-> "", driverAtCheck |-> "", driverUsed |-> "", publishedAt |-> 0]

ServerInit ==
  /\ text \in ServerTexts
  /\ config = StrictConfig
  /\ dbCache \in ServerCaches
  /\ driver \in ServerDrivers
  /\ linter = NilLinter
  /\ db = <<>>
  /\ results = <<>>
  /\ published = [sent |-> FALSE, Diagnostics |-> <<>>]
  /\ requests = <<>>

\* the document is opened: a first lint request is issued for it
didOpen ==
  /\ requests = <<>>
  /\ requests' = <<NewRequest>>
  /\ UNCHANGED <<text, config, dbCache, driver, linter, db, results, published>>

\* the document is changed: the server's copy is replaced by the newer text
\* and a lint request is issued for it
didChange ==
  /\ requests # <<>> /\ Len(requests) < MaxRequests
  /\ \E t \in ServerTexts \ {text} : text' = t
  /\ requests' = Append(requests, NewRequest)
  /\ UNCHANGED <<config, dbCache, driver, linter, db, results, published>>

\* the background worker replaces its snapshot of the catalog
refreshCache ==
  /\ \E dc \in ServerCaches \ {dbCache} : dbCache' = dc
  /\ UNCHANGED <<text, config, driver, linter, db, results, published, requests>>

\* the current connection is switched to a database of another driver
switchConnection ==
  /\ \E drv \in ServerDrivers \ {driver} : driver' = drv
  /\ UNCHANGED <<text, config, dbCache, linter, db, results, published, requests>>

\* lintDocument, first step: read the file, create the Linter if there is
\* none yet
lintBegin(r) ==
  /\ requests[r].pc = "start"
  /\ linter' = IF linter = NilLinter THEN initializeLinter ELSE linter
  /\ requests' = [requests EXCEPT ![r].pc = "update", ![r].Text = text,
                                   ![r].driverAtStart = driver]
  /\ UNCHANGED <<text, config, dbCache, driver, db, results, published>>

\* lintDocument, second step: hand the worker's current snapshot to the Linter
lintUpdate(r) ==
  /\ requests[r].pc = "update"
  /\ linter' = UpdateDBCache(linter, dbCache)
  /\ requests' = [requests EXCEPT ![r].pc = "tables"]
  /\ UNCHANGED <<text, config, dbCache, driver, db, results, published>>

\* Lint up to the Table Resolver: the early return, the parse, the syntax
\* stage and the table stage, over the validators the Linter holds now
lintTables(r) ==
  /\ requests[r].pc = "tables"
  /\ LET t == requests[r].Text
          p == Parse(t)
          ds == IF ~linter.config.Enabled THEN <<>>
                ELSE IF p.err
                  THEN AddError(Pos(0, 0), Pos(0, 0), "syntax-error",
                                Msg("Failed to parse SQL: %s", <<sParseFailed>>))
                ELSE syntaxStage(linter, p.root) \o tableStage(linter, t)
     IN  requests' = [requests EXCEPT ![r].pc = "columns", ![r].diagnostics = ds,
                                      ![r].tableCache = linter.tableValidator.dbCache]
  /\ UNCHANGED <<text, config, dbCache, driver, linter, db, results, published>>

\* Lint from the Column Resolver on: the column stage, the style stage, the
\* additional checks and the limit, over the validators the Linter holds now
lintColumns(r) ==
  /\ requests[r].pc = "columns"
  /\ \E order \in AliasOrders(requests[r].Text) :
       LET t == requests[r].Text
           p == Parse(t)
           ds == IF ~linter.config.Enabled THEN <<>>
                 ELSE IF p.err THEN limitDiagnostics(linter, requests[r].diagnostics)
                 ELSE limitDiagnostics(linter,
                        requests[r].diagnostics
                          \o columnStage(linter, t)
                          \o styleStage(linter, p.root)
                          \o additionalStage(linter, t, p.root, order))
       IN  /\ requests' = [requests EXCEPT ![r].pc = "publish", ![r].diagnostics = ds,
                                           ![r].columnCache = linter.columnValidator.dbCache,
                                           ![r].driverUsed = linter.columnValidator.driver,
                                           ![r].driverAtCheck = driver]
           /\ results' = Append(results, ds)
  /\ UNCHANGED <<text, config, dbCache, driver, linter, db, published>>

\* lintDocument, last step: publish what Lint returned
lintPublish(r) ==
  /\ requests[r].pc = "publish"
  /\ published' = publishDiagnostics(requests[r].diagnostics)
  /\ requests' = [requests EXCEPT
                    ![r].pc = "done",
                    ![r].publishedAt =
                      1 + Cardinality({q \in DOMAIN requests : requests[q].pc = "done"})]
  /\ UNCHANGED <<text, config, dbCache, driver, linter, db, results>>

ServerNext ==
  \/ didOpen
  \/ didChange
  \/ refreshCache
  \/ switchConnection
  \/ \E r \in DOMAIN requests : lintBegin(r)
  \/ \E r \in DOMAIN requests : lintUpdate(r)
  \/ \E r \in DOMAIN requests : lintTables(r)
  \/ \E r \in DOMAIN requests : lintColumns(r)
  \/ \E r \in DOMAIN requests : lintPublish(r)

ServerSpec == ServerInit /\ [][ServerNext]_vars

----------------------------------------------------------------------------
(* Vocabulary of the properties: what a document refers to, stated on the  *)
(* document and the catalog, not on what the validators compute             *)

\* the Lint passes made so far
Runs == 1..Len(results)

CodesOf(ds) == {ds[j].Code : j \in 1..Len(ds)}

\* the 0-based range of a node of the tree
Span(n) ==
  [Start |-> [Line |-> NodePos(n).Line - 1, Character |-> NodePos(n).Col - 1],
   End |-> [Line |-> NodeEnd(n).Line - 1, Character |-> NodeEnd(n).Col - 1]]

\* how many diagnostics of a list carry this code at this range
CountAt(ds, code, range) ==
  Cardinality({j \in 1..Len(ds) : ds[j].Code = code /\ ds[j].Range = range})

\* the pass ran and its list was not cut by maxDiagnostics
Untruncated ==
  config.Enabled /\ (config.MaxDiagnostics = 0 \/ Len(db) <= config.MaxDiagnostics)

\* statement s of the document, as a tree
StmtTree(s) == Parse(text).root.toks[s]

StmtIds == IF text.ok THEN 1..Len(text.stmts) ELSE {}

\* the items of a select list, each without its AS alias
SelectItems(n) ==
  LET items == IF n.type = "IdentifierList" THEN GetIdentifiers(n) ELSE <<n>>
  IN  {IF items[i].type = "Aliased" THEN RealName(items[i]) ELSE items[i] :
         i \in 1..Len(items)}

\* the column expressions of statement s: select items and comparison operands
ColumnExprs(s) ==
  SelectItems(StmtTree(s).toks[3])
    \cup UNION {{c.toks[1], c.toks[5]} : c \in SeqToSet(OfType(walk(StmtTree(s)), "Comparison"))}

QualifiedRefs(s) == {n \in ColumnExprs(s) : n.type = "MemberIdentifier"}

UnqualifiedRefs(s) == {n \in ColumnExprs(s) : n.type = "Identifier" /\ ~IsWildcard(n)}

\* the tables of the FROM and JOIN clauses of statement s
ScopeTables(s) ==
  SeqToSet(text.stmts[s].from) \cup {j.t : j \in SeqToSet(text.stmts[s].joins)}

\* the tables of statement s that the qualifier q names, by alias or by name
Resolves(s, q) ==
  {tb \in ScopeTables(s) : EqualFold(tb.alias, q) \/ EqualFold(tb.name, q)}

\* the column names the catalog holds for a table name, in any schema
CatalogColumns(name) ==
  IF dbCache.nil THEN {}
  ELSE UNION {{d.Name : d \in {x \in SeqToSet(dbCache.ColumnsWithParent[k]) :
                                  EqualFold(x.Table, name)}} :
                k \in DOMAIN dbCache.ColumnsWithParent}

HasColumn(name, col) == \E c \in CatalogColumns(name) : EqualFold(c, col)

\* a qualified reference t.col (not the wildcard t.*) whose table is known
\* and lacks the column
LacksColumn(s, m) ==
  LET tbs == Resolves(s, NodeString(ParentIdent(m)))
  IN  /\ ~IsWildcard(ChildIdent(m))
      /\ tbs # {}
      /\ \A tb \in tbs : CatalogColumns(tb.name) # {}
                         /\ ~HasColumn(tb.name, NodeString(ChildIdent(m)))

----------------------------------------------------------------------------
(* Properties *)

SemanticCodes == {"table-not-found", "invalid-schema", "column-not-found", "ambiguous-column"}

LexicalCodes ==
  {"syntax-error", "null-comparison", "reserved-word-case", "missing-semicolon",
   "select-star", "unused-alias", "implicit-join"}

\* C1: with no catalog attached, no list returned by Lint holds a
\* table-not-found, invalid-schema, column-not-found or ambiguous-column
\* diagnostic; only syntax, style and implicit-join diagnostics appear,
\* whatever the document and the configuration.
C1_NoCatalogNoSemantic ==
  dbCache.nil =>
    \A i \in Runs : CodesOf(results[i]) \subseteq LexicalCodes
                    /\ CodesOf(results[i]) \cap SemanticCodes = {}

\* C1 happens: no catalog, both reference checks on, a document that names
\* an unknown table beside others, and the pass still reports the implicit join
C1_Witness ==
  /\ dbCache.nil
  /\ config.CheckTableReferences /\ config.CheckColumnReferences
  /\ text.ok /\ (\E k \in 1..Len(text.stmts[1].from) : text.stmts[1].from[k] = tGhost)
  /\ Len(results) > 0
  /\ "implicit-join" \in CodesOf(results[1])

\* the column check runs over a catalog and the list is returned whole
ColumnPass ==
  /\ ~dbCache.nil /\ text.ok
  /\ config.CheckColumnReferences
  /\ Untruncated

TablesWith(s, col) ==
  {ToLower(tb.name) : tb \in {x \in ScopeTables(s) : HasColumn(x.name, col)}}

\* C3: an occurrence of an unqualified name that is a column of two or more
\* distinct tables in scope gets, with warnOnAmbiguousColumn enabled, exactly
\* one ambiguous-column warning in a pass, wherever it stands (the warning
\* lists each distinct table once, in first-seen order).
C3_OneAmbiguousWarning ==
  (ColumnPass /\ config.WarnOnAmbiguousColumn) =>
    \A i \in Runs : \A s \in StmtIds : \A n \in UnqualifiedRefs(s) :
      Cardinality(TablesWith(s, NodeString(n))) >= 2 =>
        CountAt(results[i], "ambiguous-column", Span(n)) = 1

\* C4: an unqualified name that is a column of exactly one table among the
\* tables in scope gets no diagnostic of the resolvers anchored at it,
\* whichever sweep visits it.
C4_UniqueColumnSilent ==
  ColumnPass =>
    \A i \in Runs : \A s \in StmtIds : \A n \in UnqualifiedRefs(s) :
      Cardinality(TablesWith(s, NodeString(n))) = 1 =>
        \A j \in 1..Len(results[i]) :
          results[i][j].Range = Span(n) => results[i][j].Code \notin SemanticCodes

\* the part of C4 that holds: in a document of one statement the name is silent
C4_SingleStatement ==
  (ColumnPass /\ Len(text.stmts) = 1) =>
    \A i \in Runs : \A n \in UnqualifiedRefs(1) :
      Cardinality(TablesWith(1, NodeString(n))) = 1 =>
        \A j \in 1..Len(results[i]) :
          results[i][j].Range = Span(n) => results[i][j].Code \notin SemanticCodes

\* C5: Lint is deterministic: the passes over one (text, configuration,
\* catalog) return the same list, element by element and in the same order.
C5_Deterministic == \A i, j \in Runs : results[i] = results[j]

\* C6: if the validators accumulated N diagnostics and maxDiagnostics = k
\* with 0 < k < N, the pass returns the first k of them in discovery order;
\* if k = 0 or k >= N it returns all N, unchanged.  (db holds what the
\* validators of the latest pass accumulated.)
C6_Truncation ==
  (config.Enabled /\ Len(results) > 0) =>
    LET N == Len(db)
        k == config.MaxDiagnostics
        returned == results[Len(results)]
    IN  IF 0 < k /\ k < N
          THEN Len(returned) = k /\ \A j \in 1..k : returned[j] = db[j]
          ELSE returned = db

\* C6 happens: a pass that accumulated more than maxDiagnostics > 0 diagnostics
C6_Witness ==
  /\ config.Enabled /\ Len(results) > 0
  /\ config.MaxDiagnostics > 0
  /\ Len(db) > config.MaxDiagnostics + 1
  /\ db[1] # db[Len(db)]

\* C7: when parsing fails and the linter is enabled, the pass returns exactly
\* one diagnostic: syntax-error, severity Error, start and end both at line 0,
\* character 0; no other check contributes.
C7_ParseFailure ==
  (config.Enabled /\ ~text.ok) =>
    \A i \in Runs :
      /\ Len(results[i]) = 1
      /\ results[i][1].Code = "syntax-error"
      /\ results[i][1].Severity = SeverityError
      /\ results[i][1].Range = [Start |-> [Line |-> 0, Character |-> 0],
                                End |-> [Line |-> 0, Character |-> 0]]

\* the part of C7 that holds: one syntax-error of severity Error and nothing else
C7_OnlySyntaxError ==
  (config.Enabled /\ ~text.ok) =>
    \A i \in Runs :
      /\ Len(results[i]) = 1
      /\ results[i][1].Code = "syntax-error"
      /\ results[i][1].Severity = SeverityError

\* the stage the claim gives each code
ClaimedStage(code) ==
  CASE code \in {"null-comparison", "reserved-word-case", "missing-semicolon"} -> 1
    [] code \in {"invalid-schema", "table-not-found"} -> 2
    [] code \in {"column-not-found", "ambiguous-column"} -> 3
    [] code \in {"select-star", "unused-alias", "implicit-join"} -> 4
    [] OTHER -> 0

\* C8 as stated: in the list returned for a parsed document the diagnostics
\* are grouped by stage in the order lexical/style (null-comparison,
\* reserved-word-case, missing-semicolon), Table Resolver (invalid-schema,
\* table-not-found), Column Resolver (column-not-found, ambiguous-column),
\* auxiliary (select-star, unused-alias, implicit-join).
C8_ClaimedOrder ==
  text.ok =>
    \A i \in Runs : \A a, b \in 1..Len(results[i]) :
      a < b => ClaimedStage(results[i][a].Code) <= ClaimedStage(results[i][b].Code)

\* the stages of runValidators that can emit each code: 1 syntax, 2 table,
\* 3 column, 4 style, 5 auxiliary
StagesOf(code) ==
  CASE code = "null-comparison" -> {1}
    [] code = "invalid-schema" -> {2}
    [] code = "table-not-found" -> {2, 3}
    [] code \in {"column-not-found", "ambiguous-column"} -> {3}
    [] code \in {"reserved-word-case", "missing-semicolon"} -> {4}
    [] code \in {"select-star", "unused-alias"} -> {5}
    [] code = "implicit-join" -> {2, 5}
    [] OTHER -> {}

RECURSIVE InStageOrder(_, _, _)
\* the diagnostics from the j-th on can be given stages that never decrease,
\* starting no lower than cur
InStageOrder(ds, j, cur) ==
  IF j > Len(ds) THEN TRUE
  ELSE LET open == {st \in StagesOf(ds[j].Code) : st >= cur}
       IN  open # {} /\ InStageOrder(ds, j + 1, CHOOSE st \in open : \A o \in open : st <= o)

\* C8 amended: the diagnostics are grouped in the order null-comparison;
\* Table Resolver (invalid-schema, table-not-found, and the implicit-join
\* warning it adds itself); Column Resolver (column-not-found,
\* ambiguous-column, table-not-found for an unresolved qualifier); style
\* (reserved-word-case, missing-semicolon); auxiliary (select-star,
\* unused-alias, implicit-join).
C8_StageOrder ==
  text.ok => \A i \in Runs : InStageOrder(results[i], 1, 1)

\* C8 happens: one returned list holds diagnostics of all five stages
C8_Witness ==
  /\ text.ok /\ Len(results) > 0
  /\ {"null-comparison", "ambiguous-column", "reserved-word-case", "select-star"}
       \subseteq CodesOf(results[1])
  /\ Cardinality({j \in 1..Len(results[1]) : results[1][j].Code = "implicit-join"}) = 2

\* the last comma of the FROM list of statement s
LastFromComma(s) ==
  LET commas == SelectSeq(StmtTree(s).toks[5].toks[3].toks, LAMBDA c : c.tok.Kind = "Comma")
  IN  commas[Len(commas)]

ImplicitJoins(ds) == {j \in 1..Len(ds) : ds[j].Code = "implicit-join"}

\* C9: for a single statement whose FROM span holds a comma, with
\* warnOnImplicitJoin enabled, a pass returns exactly one implicit-join
\* warning, at the last such comma, with a catalog attached or not.
C9_OneImplicitJoin ==
  (text.ok /\ Len(text.stmts) = 1 /\ Len(text.stmts[1].from) >= 2
     /\ config.WarnOnImplicitJoin /\ Untruncated) =>
    \A i \in Runs :
      /\ Cardinality(ImplicitJoins(results[i])) = 1
      /\ CountAt(results[i], "implicit-join", Span(LastFromComma(1))) = 1

\* C10: implicit-join detection is per statement: every statement whose FROM
\* span holds a comma gets an implicit-join warning at its last FROM comma,
\* whatever follows it, and a statement with no such comma gets none.
C10_PerStatement ==
  (text.ok /\ config.WarnOnImplicitJoin /\ Untruncated) =>
    \A i \in Runs : \A s \in StmtIds :
      IF Len(text.stmts[s].from) >= 2
        THEN CountAt(results[i], "implicit-join", Span(LastFromComma(s))) >= 1
        ELSE \A j \in ImplicitJoins(results[i]) : results[i][j].Range.Start.Line # s - 1

\* C11: with checkTableReferences disabled, no list returned by Lint holds a
\* table-not-found diagnostic, whatever the document, the catalog and the
\* other toggles (checkColumnReferences included).
C11_NoTableNotFoundWhenDisabled ==
  ~config.CheckTableReferences =>
    \A i \in Runs : "table-not-found" \notin CodesOf(results[i])

\* C12: with checkSchemaReferences disabled, no list returned by Lint holds
\* an invalid-schema diagnostic, whatever the document and the catalog.
C12_NoInvalidSchemaWhenDisabled ==
  ~config.CheckSchemaReferences =>
    \A i \in Runs : "invalid-schema" \notin CodesOf(results[i])

\* C13: each per-warning toggle gates its code: with warnOnSelectStar,
\* warnOnNullComparison, warnOnUnusedAlias, warnOnImplicitJoin or
\* warnOnAmbiguousColumn off, no list returned by Lint holds select-star,
\* null-comparison, unused-alias, implicit-join or ambiguous-column
\* respectively, whatever the other settings.
C13_WarningToggles ==
  \A i \in Runs :
    /\ ~config.WarnOnSelectStar => "select-star" \notin CodesOf(results[i])
    /\ ~config.WarnOnNullComparison => "null-comparison" \notin CodesOf(results[i])
    /\ ~config.WarnOnUnusedAlias => "unused-alias" \notin CodesOf(results[i])
    /\ ~config.WarnOnImplicitJoin => "implicit-join" \notin CodesOf(results[i])
    /\ ~config.WarnOnAmbiguousColumn => "ambiguous-column" \notin CodesOf(results[i])

\* a pass over a document with a name that is a column of two tables in
\* scope, the column check on over a catalog, warnOnAmbiguousColumn off
C13_Witness ==
  /\ ColumnPass /\ ~config.WarnOnAmbiguousColumn
  /\ Len(results) = 1
  /\ \E s \in StmtIds : \E n \in UnqualifiedRefs(s) :
        Cardinality(TablesWith(s, NodeString(n))) >= 2

\* C14: with the master switch off, Lint returns an empty list for every
\* text (nothing is parsed, so not even a syntax-error is produced), and
\* lintDocument then publishes an empty list for the document.
C14_DisabledEmpty ==
  ~config.Enabled =>
    /\ db = <<>>
    /\ \A i \in Runs : results[i] = <<>>
    /\ Len(results) > 0 => published.sent /\ published.Diagnostics = <<>>

\* a disabled linter has linted a text the parser rejects and the handler
\* has published
C14_Witness ==
  ~config.Enabled /\ ~text.ok /\ Len(results) = 1 /\ published.sent

\* a token written between two quote characters q
Quoted(n, q) == Len(n.tok.raw) >= 2 /\ n.tok.raw[1] = q

\* the exemption as the specification words it
Exempt(n) ==
  \/ Quoted(n, "'")
  \/ Quoted(n, "\"") /\ driver \in {"mysql", "mysql8", "mysql57", "mysql56"}

ColumnCodes == {"column-not-found", "ambiguous-column"}

\* the table references of the whole document
DocTables == UNION {ScopeTables(s) : s \in StmtIds}

\* a name that is a column of no table of the document, while the columns
\* of at least one of its tables are known
UnknownColumn(name) ==
  /\ \E tb \in DocTables : CatalogColumns(tb.name) # {}
  /\ \A tb \in DocTables : ~HasColumn(tb.name, name)

TableRefs(s) ==
  LET from == StmtTree(s).toks[5].toks[3]
  IN  (IF from.type = "IdentifierList" THEN SeqToSet(GetIdentifiers(from)) ELSE {from})
      \cup {j.toks[4] : j \in SeqToSet(OfType(StmtTree(s).toks, "Join"))}

\* the name node of a table reference, without its alias
RefBase(r) == IF r.type = "Aliased" THEN RealName(r) ELSE r

RefTable(r) ==
  IF RefBase(r).type = "MemberIdentifier"
    THEN NoQuote(NodeString(ChildIdent(RefBase(r)))) ELSE NoQuoteString(RefBase(r))

RefSchema(r) ==
  IF RefBase(r).type = "MemberIdentifier"
    THEN NoQuote(NodeString(ParentIdent(RefBase(r)))) ELSE <<>>

\* the catalog holds the schema, in any letter case
CatalogHasSchema(schema) ==
  \E i \in 1..Len(dbCache.Schemas) : EqualFold(dbCache.Schemas[i], schema)

\* the catalog holds the table, in the named schema or (no schema named)
\* in any schema, in any letter case
CatalogHasTable(schema, name) ==
  \E sc \in DOMAIN dbCache.SchemaTables :
    /\ schema = <<>> \/ EqualFold(sc, schema)
    /\ \E i \in 1..Len(dbCache.SchemaTables[sc]) : EqualFold(dbCache.SchemaTables[sc][i], name)

\* a name that is, letter case aside, the beginning of a listed keyword
IsKeywordPrefix(name) ==
  \E kw \in PartialKeywords :
    Len(name) <= Len(kw) /\ \A k \in 1..Len(name) : UpperChar(name[k]) = kw[k]

\* the pass ran the Table Resolver over a catalog and its list was not cut
TablePass == ~dbCache.nil /\ text.ok /\ config.CheckTableReferences /\ Untruncated

\* how many errors the Table Resolver anchored at a table reference
TableErrors(ds, r) ==
  CountAt(ds, "table-not-found", Span(r)) + CountAt(ds, "invalid-schema", Span(r))

\* C16: a table reference whose table name has at most 4 characters and is
\* a case-insensitive prefix of a listed keyword gets neither table-not-found
\* nor invalid-schema from the Table Resolver; a longer name, or one that is
\* no such prefix, is checked: if the catalog lacks it, it gets an error.
C16_PartialKeywordSuppression ==
  TablePass =>
    \A i \in Runs : \A s \in StmtIds : \A r \in TableRefs(s) :
      IF Len(RefTable(r)) <= 4 /\ IsKeywordPrefix(RefTable(r))
        THEN TableErrors(results[i], r) = 0
        ELSE ~CatalogHasTable(RefSchema(r), RefTable(r)) => TableErrors(results[i], r) >= 1

\* a pass over a document with a short keyword prefix the catalog lacks in
\* table position, next to a five-letter prefix and a short non-prefix
C16_Witness ==
  /\ TablePass /\ Len(results) = 1
  /\ \E s \in StmtIds : \E r1, r2, r3 \in TableRefs(s) :
        /\ Len(RefTable(r1)) <= 4 /\ IsKeywordPrefix(RefTable(r1))
        /\ ~CatalogHasTable(RefSchema(r1), RefTable(r1))
        /\ Len(RefTable(r2)) > 4 /\ IsKeywordPrefix(RefTable(r2))
        /\ ~CatalogHasTable(RefSchema(r2), RefTable(r2))
        /\ Len(RefTable(r3)) <= 4 /\ ~IsKeywordPrefix(RefTable(r3))
        /\ ~CatalogHasTable(RefSchema(r3), RefTable(r3))

\* the spans inside a table reference at which a missing table could be
\* reported: the reference, its name node, and the two parts of the name
RefSpans(r) ==
  {Span(r), Span(RefBase(r))}
    \cup (IF RefBase(r).type = "MemberIdentifier"
            THEN {Span(ParentIdent(RefBase(r))), Span(ChildIdent(RefBase(r)))} ELSE {})

\* a table reference the partial-keyword rule leaves unchecked
Suppressed(r) == Len(RefTable(r)) <= 4 /\ IsKeywordPrefix(RefTable(r))

\* C17: a schema-qualified table reference s.t in FROM or JOIN position
\* whose schema is not in the catalog gets one invalid-schema error from a
\* pass and no table-not-found diagnostic, neither for the reference nor for
\* s or t, from any validator.
C17_InvalidSchemaOnly ==
  TablePass =>
    \A i \in Runs : \A s \in StmtIds : \A r \in TableRefs(s) :
      (RefSchema(r) # <<>> /\ ~CatalogHasSchema(RefSchema(r)) /\ ~Suppressed(r)) =>
        /\ CountAt(results[i], "invalid-schema", Span(r)) = 1
        /\ \A sp \in RefSpans(r) : CountAt(results[i], "table-not-found", sp) = 0

\* the part of C17 that is about the Table Resolver: one invalid-schema at
\* the reference and no table-not-found at the reference
C17_TableResolverPart ==
  TablePass =>
    \A i \in Runs : \A s \in StmtIds : \A r \in TableRefs(s) :
      (RefSchema(r) # <<>> /\ ~CatalogHasSchema(RefSchema(r)) /\ ~Suppressed(r)) =>
        /\ CountAt(results[i], "invalid-schema", Span(r)) = 1
        /\ CountAt(results[i], "table-not-found", Span(r)) = 0

\* the catalog holds what a table reference names, letter case aside
InCatalog(r) ==
  /\ RefSchema(r) # <<>> => CatalogHasSchema(RefSchema(r))
  /\ CatalogHasTable(RefSchema(r), RefTable(r))

\* C18: table existence is decided case-insensitively in both parts of the
\* name: a reference s.t or t that differs only in letter case from a schema
\* and table of the catalog gets no table-not-found and no invalid-schema
\* from the Table Resolver.
C18_CaseInsensitiveExistence ==
  TablePass =>
    \A i \in Runs : \A s \in StmtIds : \A r \in TableRefs(s) :
      InCatalog(r) => TableErrors(results[i], r) = 0

\* the same for references without a schema, and for references whose
\* schema is written as the catalog stores it
C18_TableNamePart ==
  TablePass =>
    \A i \in Runs : \A s \in StmtIds : \A r \in TableRefs(s) :
      (InCatalog(r) /\ (RefSchema(r) = <<>> \/ RefSchema(r) \in DOMAIN dbCache.SchemaTables)) =>
        TableErrors(results[i], r) = 0

\* a named table reference the catalog lacks, and that is checked
MissingTable(r) ==
  /\ ~Suppressed(r)
  /\ RefSchema(r) # <<>> => CatalogHasSchema(RefSchema(r))
  /\ ~CatalogHasTable(RefSchema(r), RefTable(r))

\* the table-not-found diagnostics a list holds for a table reference
NotFoundFor(ds, r) ==
  {j \in 1..Len(ds) : ds[j].Code = "table-not-found" /\ ds[j].Range \in RefSpans(r)}

\* C19: a named table reference (plain, aliased, in a comma list or a JOIN)
\* whose table the catalog lacks, and whose name is not a suppressed partial
\* keyword, gets exactly one table-not-found error in a pass, and its range
\* is the span of the table name.
C19_OneTableNotFound ==
  TablePass =>
    \A i \in Runs : \A s \in StmtIds : \A r \in TableRefs(s) :
      MissingTable(r) =>
        /\ Cardinality(NotFoundFor(results[i], r)) = 1
        /\ CountAt(results[i], "table-not-found", Span(RefBase(r))) = 1

\* the count alone: exactly one table-not-found per missing reference, at
\* the span of the reference (alias included)
C19_ExactlyOne ==
  TablePass =>
    \A i \in Runs : \A s \in StmtIds : \A r \in TableRefs(s) :
      MissingTable(r) =>
        /\ Cardinality(NotFoundFor(results[i], r)) = 1
        /\ CountAt(results[i], "table-not-found", Span(r)) = 1

\* the aliased table references of statement s that define alias a
AliasDefs(s, a) ==
  {r \in TableRefs(s) : r.type = "Aliased" /\ EqualFold(NoQuoteString(AliasedName(r)), a)}

\* a qualified reference a.col whose qualifier is an alias of a table the
\* catalog holds with column col
ResolvedByAlias(s, m) ==
  /\ AliasDefs(s, NoQuoteString(ParentIdent(m))) # {}
  /\ \A r \in AliasDefs(s, NoQuoteString(ParentIdent(m))) :
        InCatalog(r) /\ HasColumn(RefTable(r), NoQuoteString(ChildIdent(m)))

\* the spans of the reference, of its two parts and of the alias definition
AliasSpans(s, m) ==
  {Span(m), Span(ParentIdent(m)), Span(ChildIdent(m))}
    \cup UNION {{Span(r), Span(AliasedName(r))} : r \in AliasDefs(s, NoQuoteString(ParentIdent(m)))}

UnknownInStatement(s, name) ==
  /\ \E tb \in ScopeTables(s) : CatalogColumns(tb.name) # {}
  /\ \A tb \in ScopeTables(s) : ~HasColumn(tb.name, name)

\* C21: scope is per query: an unqualified name is resolved against the
\* tables of its own statement only, so a name that is a column of at most
\* one table of its statement is never reported as ambiguous whatever the
\* other statements hold, and a name that is a column only of another
\* statement's table is reported as not found.
C21_PerQueryScope ==
  (ColumnPass /\ config.WarnOnAmbiguousColumn) =>
    \A i \in Runs : \A s \in StmtIds : \A n \in UnqualifiedRefs(s) :
      /\ Cardinality(TablesWith(s, NoQuoteString(n))) <= 1 =>
            CountAt(results[i], "ambiguous-column", Span(n)) = 0
      /\ (~Exempt(n) /\ UnknownInStatement(s, NoQuoteString(n))) =>
            CountAt(results[i], "column-not-found", Span(n)) >= 1

\* the same for documents of one statement
C21_SingleStatement ==
  (ColumnPass /\ config.WarnOnAmbiguousColumn /\ Len(text.stmts) = 1) =>
    \A i \in Runs : \A s \in StmtIds : \A n \in UnqualifiedRefs(s) :
      /\ Cardinality(TablesWith(s, NoQuoteString(n))) <= 1 =>
            CountAt(results[i], "ambiguous-column", Span(n)) = 0
      /\ (~Exempt(n) /\ UnknownInStatement(s, NoQuoteString(n))) =>
            CountAt(results[i], "column-not-found", Span(n)) >= 1

\* a diagnostic of the Column Resolver: its two column codes, and the
\* table-not-found it words for an unresolved qualifier
FromColumnResolver(d) ==
  \/ d.Code \in ColumnCodes
  \/ d.Code = "table-not-found"
       /\ d.Message.fmt = "Table or alias '%s' not found in query"

\* the identifiers of a node
IdentifiersOf(n) == SeqToSet(OfType(walk(n), "Identifier"))

\* the identifiers of statement s in table-name position: the name of each
\* FROM and JOIN reference, both parts of a schema-qualified one
TableNameIdents(s) == UNION {IdentifiersOf(RefBase(r)) : r \in TableRefs(s)}

\* the target names of the AS-alias definitions of statement s
AliasTargets(s) ==
  UNION {IdentifiersOf(AliasedName(a)) : a \in SeqToSet(OfType(walk(StmtTree(s)), "Aliased"))}

\* the qualifiers of statement s that are uses of one of its aliases
AliasUses(s) ==
  {ParentIdent(m) : m \in {q \in QualifiedRefs(s) :
      \E tb \in ScopeTables(s) : tb.alias # <<>> /\ EqualFold(tb.alias, NodeString(ParentIdent(q)))}}

\* the string literals among the column expressions of statement s
StringLiterals(s) == {n \in ColumnExprs(s) : n.type = "Identifier" /\ Quoted(n, "'")}

\* the identifiers the Column Resolver is to leave alone
Excluded(s) == TableNameIdents(s) \cup AliasTargets(s) \cup AliasUses(s) \cup StringLiterals(s)

\* C22: the Column Resolver anchors no diagnostic at an identifier in
\* table-name position of a FROM or JOIN clause (both parts of s.t, names
\* inside alias and list wrappers), at an alias use, at the target name of
\* an AS-alias definition, or at a string literal.
C22_ExclusionSet ==
  ColumnPass =>
    \A i \in Runs : \A j \in 1..Len(results[i]) :
      FromColumnResolver(results[i][j]) =>
        \A s \in StmtIds : \A n \in Excluded(s) : results[i][j].Range # Span(n)

\* the same with the schema part of a schema-qualified table reference
\* left out of the exclusion set
C22_ExceptSchemaPart ==
  ColumnPass =>
    \A i \in Runs : \A j \in 1..Len(results[i]) :
      FromColumnResolver(results[i][j]) =>
        \A s \in StmtIds :
          \A n \in Excluded(s) \
                   {ParentIdent(RefBase(r)) :
                      r \in {x \in TableRefs(s) : RefBase(x).type = "MemberIdentifier"}} :
            results[i][j].Range # Span(n)

\* the context the Column Resolver builds for the document
Context == buildColumnContext(dbCache, extractTables(Parse(text).root))

\* how often a descriptor stands in a list
Occurrences(xs, d) == Cardinality({i \in 1..Len(xs) : xs[i] = d})

\* how often a descriptor stands in the lists stored in TableColumns
Stored(context, d) ==
  Cardinality({ki \in UNION {{<<k, i>> : i \in 1..Len(context.TableColumns[k])} :
                                k \in DOMAIN context.TableColumns} :
                 context.TableColumns[ki[1]][ki[2]] = d})

\* every key of TableColumns has its canonical name in TableAliases
AliasesCoverTables(context) ==
  \A k \in DOMAIN context.TableColumns :
    k \in DOMAIN context.TableAliases /\ ToLower(context.TableAliases[k]) = k

\* AllColumns is the union of the stored column lists, grouped by the
\* lower-cased column name, each descriptor as often as it is stored
AllColumnsIsUnion(context) ==
  /\ DOMAIN context.AllColumns =
       {ToLower(d.Name) : d \in UNION {SeqToSet(context.TableColumns[k]) :
                                          k \in DOMAIN context.TableColumns}}
  /\ \A c \in DOMAIN context.AllColumns :
       /\ \A d \in SeqToSet(context.AllColumns[c]) :
            /\ ToLower(d.Name) = c
            /\ Occurrences(context.AllColumns[c], d) = Stored(context, d)
       /\ \A k \in DOMAIN context.TableColumns :
            \A d \in SeqToSet(context.TableColumns[k]) :
              ToLower(d.Name) = c => d \in SeqToSet(context.AllColumns[c])

\* C25: the context built for the tables of a checked document is
\* consistent: every key of TableColumns has a canonical-name entry in
\* TableAliases, and AllColumns holds exactly the descriptors stored in
\* TableColumns, grouped by lower-cased column name, none left over from an
\* overwritten entry and none counted twice.
C25_ContextConsistent ==
  (ColumnPass /\ Len(results) >= 1) =>
    AliasesCoverTables(Context) /\ AllColumnsIsUnion(Context)

\* the part of C25 about TableAliases
C25_AliasesPart ==
  (ColumnPass /\ Len(results) >= 1) => AliasesCoverTables(Context)

\* C25 for documents that name no table twice
C25_DistinctTables ==
  (ColumnPass /\ Len(results) >= 1
     /\ \A i, j \in 1..Len(extractTables(Parse(text).root)) :
          i # j => ~EqualFold(extractTables(Parse(text).root)[i].Name,
                              extractTables(Parse(text).root)[j].Name)) =>
    AllColumnsIsUnion(Context)

\* an unqualified identifier of statement s that is no column of a table in
\* scope and no alias, but carries the name of a table in scope
TableNameAsColumn(s, n) ==
  /\ ~Exempt(n)
  /\ \A tb \in ScopeTables(s) :
        ~HasColumn(tb.name, NoQuoteString(n)) /\ ~EqualFold(tb.alias, NoQuoteString(n))
  /\ \E tb \in ScopeTables(s) : EqualFold(tb.name, NoQuoteString(n))

\* the Column Resolver diagnostics of a list anchored at a node
ResolverAt(ds, n) ==
  {j \in 1..Len(ds) : FromColumnResolver(ds[j]) /\ ds[j].Range = Span(n)}

IsTableNameError(d) ==
  /\ d.Code = "column-not-found"
  /\ d.Message.fmt = "'%s' is a table name, not a column. Did you mean '%s.column_name'?"

\* C26: an unqualified identifier outside the exclusion set that is no
\* column in scope but carries the name of a table in scope gets the
\* "is a table name, not a column" error and no other Column Resolver
\* diagnostic, in the SELECT list, the WHERE clause and elsewhere.
C26_TableNameNotColumn ==
  ColumnPass =>
    \A i \in Runs : \A s \in StmtIds : \A n \in UnqualifiedRefs(s) :
      TableNameAsColumn(s, n) =>
        /\ ResolverAt(results[i], n) # {}
        /\ \A j \in ResolverAt(results[i], n) : IsTableNameError(results[i][j])

\* the same for the identifiers outside the SELECT list and the WHERE
\* clause, here the operands of JOIN conditions
C26_OutsideSelectWhere ==
  ColumnPass =>
    \A i \in Runs : \A s \in StmtIds :
      \A n \in UNION {{j.toks[8].toks[1], j.toks[8].toks[5]} :
                        j \in SeqToSet(OfType(StmtTree(s).toks, "Join"))} :
        (n.type = "Identifier" /\ ~IsWildcard(n) /\ TableNameAsColumn(s, n)) =>
          /\ ResolverAt(results[i], n) # {}
          /\ \A j \in ResolverAt(results[i], n) : IsTableNameError(results[i][j])

\* the table names a qualified reference of statement s may stand for: the
\* tables of the statement its qualifier is an alias of, else the qualifier
QualifiedTables(s, m) ==
  LET q == NoQuoteString(ParentIdent(m))
      byAlias == {tb.name : tb \in {x \in ScopeTables(s) : EqualFold(x.alias, q)}}
  IN  IF byAlias # {} THEN byAlias ELSE {q}

\* a qualified reference whose table has no columns the catalog could give
NoLocatableColumns(s, m) == \A name \in QualifiedTables(s, m) : CatalogColumns(name) = {}

\* the Column Resolver diagnostics of a list anchored at a qualified
\* reference or at one of its two parts
ResolverAtMember(ds, m) ==
  ResolverAt(ds, m) \cup ResolverAt(ds, ParentIdent(m)) \cup ResolverAt(ds, ChildIdent(m))

\* C27: a qualified reference t.col whose table has no locatable columns,
\* a qualifier that is no table or alias of the statement included, gets no
\* diagnostic from the Column Resolver.
C27_NoSchemaKnowledgeSilent ==
  ColumnPass =>
    \A i \in Runs : \A s \in StmtIds : \A m \in QualifiedRefs(s) :
      NoLocatableColumns(s, m) => ResolverAtMember(results[i], m) = {}

\* the same for the qualifiers that name a table or alias of the statement
C27_QualifierInQuery ==
  ColumnPass =>
    \A i \in Runs : \A s \in StmtIds : \A m \in QualifiedRefs(s) :
      (NoLocatableColumns(s, m) /\ Resolves(s, NoQuoteString(ParentIdent(m))) # {}) =>
        ResolverAtMember(results[i], m) = {}

\* the qualified wildcards t.* of statement s
QualifiedWildcards(s) == {m \in QualifiedRefs(s) : IsWildcard(ChildIdent(m))}

\* C28: a qualified wildcard t.* gets no diagnostic from the Column
\* Resolver, whatever t is and whatever columns t has.
C28_QualifiedWildcardSkipped ==
  ColumnPass =>
    \A i \in Runs : \A s \in StmtIds : \A m \in QualifiedWildcards(s) :
      ResolverAtMember(results[i], m) = {}

\* the same for the wildcards whose qualifier names a table or alias of the
\* statement
C28_KnownQualifier ==
  ColumnPass =>
    \A i \in Runs : \A s \in StmtIds : \A m \in QualifiedWildcards(s) :
      Resolves(s, NoQuoteString(ParentIdent(m))) # {} =>
        ResolverAtMember(results[i], m) = {}

\* the lower-cased qualifiers of the qualified references of the document
DocQualifiers ==
  UNION {{ToLower(NoQuoteString(ParentIdent(m))) : m \in QualifiedRefs(s)} : s \in StmtIds}

\* the pass ran the auxiliary warnings with unused-alias enabled and its
\* list was not cut
AliasPass == text.ok /\ config.WarnOnUnusedAlias /\ Untruncated

\* C29: with warnOnUnusedAlias enabled, every alias definition whose name
\* is never the qualifier of a qualified reference, letter case aside, gets
\* exactly one unused-alias warning at its own definition token, also when
\* the same name is defined in more than one statement; an alias used as a
\* qualifier gets none.
C29_UnusedAliasPerDefinition ==
  AliasPass =>
    \A i \in Runs : \A s \in StmtIds : \A a \in AliasTargets(s) :
      CountAt(results[i], "unused-alias", Span(a)) =
        (IF ToLower(NoQuoteString(a)) \in DocQualifiers THEN 0 ELSE 1)

\* the same for the documents that define no alias name twice
C29_DistinctAliases ==
  (AliasPass
     /\ \A s, t \in StmtIds : \A a \in AliasTargets(s) : \A b \in AliasTargets(t) :
          EqualFold(NoQuoteString(a), NoQuoteString(b)) => a = b) =>
    \A i \in Runs : \A s \in StmtIds : \A a \in AliasTargets(s) :
      CountAt(results[i], "unused-alias", Span(a)) =
        (IF ToLower(NoQuoteString(a)) \in DocQualifiers THEN 0 ELSE 1)

\* the requests whose Lint pass has returned
Linted == {r \in DOMAIN requests : requests[r].pc \in {"publish", "done"}}

\* C23: under every interleaving of lint requests, the Table Resolver and
\* the Column Resolver of one Lint pass read the same catalog snapshot.
C23_OneSnapshotPerPass ==
  \A r \in Linted : requests[r].tableCache = requests[r].columnCache

\* the same while a single request is in the server
C23_SingleRequest ==
  Len(requests) <= 1 => \A r \in Linted : requests[r].tableCache = requests[r].columnCache

\* C24: of two lint requests for the document, the second issued for newer
\* text than the first has read, the older is never published after the
\* newer: once both are published, the diagnostics last published are those
\* computed from the newest text.
C24_NewestPublishedLast ==
  \A r1, r2 \in DOMAIN requests :
    (r1 < r2 /\ requests[r1].pc = "done" /\ requests[r2].pc = "done"
       /\ requests[r1].Text # text /\ requests[r2].Text = text) =>
      /\ requests[r1].publishedAt < requests[r2].publishedAt
      /\ published = publishDiagnostics(requests[r2].diagnostics)

\* what is published is always what some finished pass returned
C24_PublishedIsSomeResult ==
  published.sent =>
    \E r \in DOMAIN requests :
      requests[r].pc = "done" /\ published = publishDiagnostics(requests[r].diagnostics)

\* C30: the driver by which a pass classifies double-quoted tokens is the
\* driver of the server's current connection at the time of the pass, also
\* after the connection was switched since the Linter was created.
C30_CurrentDriver ==
  \A r \in Linted :
    requests[r].driverAtStart = requests[r].driverAtCheck =>
      requests[r].driverUsed = requests[r].driverAtCheck

\* every pass classifies by the driver the Linter was created with
C30_CreationDriver ==
  \A r \in Linted : requests[r].driverUsed = linter.driver

====
